---- MODULE Spec2Model ----
(***************************************************************************)
(* PulseChat: the real-time synchronisation engine of apps/api (the        *)
(* PostgreSQL tables of db.ts and the Socket.IO handlers of index.ts) and   *)
(* the direct-room key of apps/web.                                         *)
(*                                                                          *)
(* Every SQL statement is one atomic step (PostgreSQL executes a single     *)
(* statement atomically; a conflicting concurrent UPDATE re-evaluates its   *)
(* WHERE clause after the row lock is released).  A socket handler is a     *)
(* task: the statement it awaits is executed by a Db... step, and the code  *)
(* after the await runs in a Continue... step, so that statements and       *)
(* continuations of different handlers interleave freely.                   *)
(***************************************************************************)
EXTENDS Integers, Sequences, FiniteSets, TLC

VARIABLES
    users,          \* table users: id -> [display_name]
    conversations,  \* table conversations: id -> row
    participants,   \* table conversation_participants: set of rows
    messages,       \* table messages: id -> row
    messageSeq,     \* last value handed out by messages_id_seq (SERIAL)
    attachments,    \* table message_attachments: id -> row
    attachmentSeq,  \* last value handed out by message_attachments_id_seq
    reactions,      \* table message_reactions: set of rows
    reactionSeq,    \* last value handed out by message_reactions_id_seq
    reads,          \* table message_reads: set of rows
    readSeq,        \* last value handed out by message_reads_id_seq
    clock,          \* the database clock, NOW(): a stored message advances it
    socketData,     \* socket -> socket.data.user
    connState,      \* socket -> "idle", "open" (handlers registered), "closed"
    rooms,          \* socket -> socket.rooms, the rooms the socket is in
    tasks,          \* the handler invocations, in order of arrival
    emitted,        \* every emit of the server, in order
    dmArgs,         \* the arguments of the last getDmRoomId call
    dmRoom,         \* the value the last getDmRoomId call returned
    roleArgs,       \* the arguments of the last hasGlobalRoleAtLeast call
    roleOk          \* the value the last hasGlobalRoleAtLeast call returned

chanVars   == <<conversations, participants>>
msgVars    == <<messages, messageSeq>>
attVars    == <<attachments, attachmentSeq>>
reactVars  == <<reactions, reactionSeq>>
readVars   == <<reads, readSeq>>
roleVars   == <<roleArgs, roleOk>>
dmVars     == <<dmArgs, dmRoom, roleVars>>
connVars   == <<socketData, connState, rooms>>
vars       == <<users, chanVars, msgVars, attVars, reactVars, readVars, clock,
                connVars, tasks, emitted, dmVars>>

(***************************************************************************)
(* Values                                                                   *)
(***************************************************************************)
\* SQL NULL / JavaScript null / undefined for an id or a timestamp.
NULL == 0

EmptyMap == [r \in {} |-> 0]

UserIds == {"u1", "u2", "u3"}
Sockets == {"s1", "s2", "s3"}

\* Text is a sequence of one-character strings.
Hi         == <<"h", "i">>
Alice      == <<"A", "l", "i", "c", "e">>
Bob        == <<"B", "o", "b">>

DefaultUsers ==
    [u \in UserIds |-> [display_name |-> IF u = "u1" THEN Alice ELSE Bob]]

\* socket.data.user as bound by the handshake from the token's claims.
HandshakeData(names) ==
    [s \in Sockets |->
        LET u == CASE s = "s1" -> "u1" [] s = "s2" -> "u2" [] OTHER -> "u3"
        IN  [id |-> u, displayName |-> names[u].display_name]]

\* socket.data.user of a socket whose handshake has not bound an identity.
NoUser == [id |-> "", displayName |-> <<>>]

\* A handshake token: absent, or a string that jwt.verify accepts (signed
\* with the secret and not expired) or rejects; sub and displayName are the
\* claims signAccessToken wrote into it.
Token(userId, displayName, valid) ==
    [present |-> TRUE, valid |-> valid, sub |-> userId,
     displayName |-> displayName]

NoToken == [present |-> FALSE, valid |-> FALSE, sub |-> "", displayName |-> <<>>]

\* auth.ts: jwt.verify(token, secret) returns the payload or throws.
verifyToken(token) ==
    [ok |-> token.valid,
     payload |-> [sub |-> token.sub, displayName |-> token.displayName]]

Max(S) == CHOOSE x \in S : \A y \in S : y <= x

(***************************************************************************)
(* Tasks and events                                                         *)
(***************************************************************************)
NewTask(kind, sock) ==
    [kind |-> kind, sock |-> sock, pc |-> "done",
     room |-> "", message |-> <<>>, replyToMessageId |-> NULL,
     attachmentIds |-> {}, messageId |-> NULL, emoji |-> <<>>,
     saved |-> NULL,        \* saveMessage's row id
     rows |-> {},           \* ids of the rows a statement returned
     lastRead |-> NULL,     \* upsertReadReceipt's last_read_message_id
     unread |-> EmptyMap, mention |-> EmptyMap,
     gotUnread |-> FALSE, gotMention |-> FALSE,
     err |-> FALSE,         \* the awaited statement threw (the catch ran)
     startedAt |-> NULL,    \* time at which the handler issued its INSERT
     userId |-> "",         \* req.user.sub of an HTTP request
     channelId |-> "", memberId |-> "", displayName |-> <<>>, role |-> "",
     callerRole |-> "", targetRole |-> "",
     limit |-> NULL, history |-> <<>>,
     token |-> NoToken,     \* the token a connection presented
     status |-> NULL]       \* HTTP status of the response sent

ToRoom(room)   == <<"room", room>>
ToSocket(sock) == <<"socket", sock>>
ToOthers(room, sock) == <<"others", room, sock>>

\* The sockets an emit reaches: io.to(room) every connected socket in the
\* room, socket.emit the socket itself, socket.to(room) every connected
\* socket in the room but the sender.
Recipients(to) ==
    CASE to[1] = "room" ->
            {s \in Sockets : connState[s] = "open" /\ to[2] \in rooms[s]}
      [] to[1] = "socket" ->
            {s \in {to[2]} : connState[s] = "open"}
      [] OTHER ->
            {s \in Sockets \ {to[3]} : connState[s] = "open" /\ to[2] \in rooms[s]}

NewEvent(event, to) ==
    [event |-> event, to |-> to, recipients |-> Recipients(to),
     room |-> "", message |-> <<>>, userId |-> "", messageId |-> NULL,
     user |-> <<>>, isTyping |-> FALSE,
     replyToMessageId |-> NULL, attachments |-> {},
     lastReadMessageId |-> NULL, emoji |-> <<>>, type |-> "",
     unreadCounts |-> EmptyMap, mentionUnreadCounts |-> EmptyMap]

TaskIds == 1..Len(tasks)

SetTask(i, t) == tasks' = [tasks EXCEPT ![i] = t]

(***************************************************************************)
(* db.ts: messages                                                          *)
(***************************************************************************)
\* saveMessage numbering the row after the rows stored, so that the value a
\* refused INSERT consumed is handed out again.
saveMessage_reuse(tbl, seq, now, room, username, message, userId, replyToMessageId) ==
    LET id == Cardinality(DOMAIN tbl) + 1
        ok == /\ userId \in DOMAIN users
              /\ replyToMessageId = NULL \/ replyToMessageId \in DOMAIN tbl
        row == [id |-> id, room |-> room, username |-> username,
                message |-> message, created_at |-> now, user_id |-> userId,
                reply_to_message_id |-> replyToMessageId,
                edited_at |-> NULL, deleted_at |-> NULL, deleted_by |-> ""]
    IN  [ok |-> ok, id |-> IF ok THEN id ELSE NULL, seq |-> IF ok THEN id ELSE seq + 1,
         table |-> IF ok THEN tbl @@ (id :> row) ELSE tbl]

\* INSERT INTO messages ... RETURNING *.  The sequence value is consumed even
\* when the row is refused by a foreign key (reply_to_message_id, user_id).
saveMessage(tbl, seq, now, room, username, message, userId, replyToMessageId) ==
    LET id == seq + 1
        ok == /\ userId \in DOMAIN users
              /\ replyToMessageId = NULL \/ replyToMessageId \in DOMAIN tbl
        row == [id |-> id, room |-> room, username |-> username,
                message |-> message, created_at |-> now, user_id |-> userId,
                reply_to_message_id |-> replyToMessageId,
                edited_at |-> NULL, deleted_at |-> NULL, deleted_by |-> ""]
    IN  [ok |-> ok, id |-> IF ok THEN id ELSE NULL, seq |-> id,
         table |-> IF ok THEN tbl @@ (id :> row) ELSE tbl]

\* editMessageForUser with WHERE id = $2 alone.
editMessageForUser_anyUser(tbl, now, messageId, userId, newContent) ==
    LET hit == {m \in DOMAIN tbl : m = messageId}
    IN  [rows |-> hit,
         table |-> [m \in DOMAIN tbl |->
                      IF m \in hit
                      THEN [tbl[m] EXCEPT !.message = newContent, !.edited_at = now]
                      ELSE tbl[m]]]

\* UPDATE messages SET message = $1, edited_at = NOW()
\* WHERE id = $2 AND user_id = $3 RETURNING *
editMessageForUser(tbl, now, messageId, userId, newContent) ==
    LET hit == {m \in DOMAIN tbl : m = messageId /\ tbl[m].user_id = userId}
    IN  [rows |-> hit,
         table |-> [m \in DOMAIN tbl |->
                      IF m \in hit
                      THEN [tbl[m] EXCEPT !.message = newContent, !.edited_at = now]
                      ELSE tbl[m]]]

\* softDeleteMessageForUser setting deleted_at alone.
softDeleteMessageForUser_unsigned(tbl, now, messageId, userId) ==
    LET hit == {m \in DOMAIN tbl : m = messageId /\ tbl[m].user_id = userId}
    IN  [rows |-> hit,
         table |-> [m \in DOMAIN tbl |->
                      IF m \in hit
                      THEN [tbl[m] EXCEPT !.deleted_at = now]
                      ELSE tbl[m]]]

\* softDeleteMessageForUser with WHERE id = $2 alone.
softDeleteMessageForUser_anyUser(tbl, now, messageId, userId) ==
    LET hit == {m \in DOMAIN tbl : m = messageId}
    IN  [rows |-> hit,
         table |-> [m \in DOMAIN tbl |->
                      IF m \in hit
                      THEN [tbl[m] EXCEPT !.deleted_at = now, !.deleted_by = userId]
                      ELSE tbl[m]]]

\* UPDATE messages SET deleted_at = NOW(), deleted_by = $1
\* WHERE id = $2 AND user_id = $1 RETURNING *
softDeleteMessageForUser(tbl, now, messageId, userId) ==
    LET hit == {m \in DOMAIN tbl : m = messageId /\ tbl[m].user_id = userId}
    IN  [rows |-> hit,
         table |-> [m \in DOMAIN tbl |->
                      IF m \in hit
                      THEN [tbl[m] EXCEPT !.deleted_at = now, !.deleted_by = userId]
                      ELSE tbl[m]]]

Min(a, b) == IF a <= b THEN a ELSE b

Reverse(s) == [k \in 1..Len(s) |-> s[Len(s) + 1 - k]]

RoomIds(tbl, room) == {m \in DOMAIN tbl : tbl[m].room = room}

\* The orders in which ORDER BY created_at DESC may deliver the rows ids:
\* rows of equal created_at come in any order.
ByCreatedAtDesc(tbl, ids) ==
    {f \in [1..Cardinality(ids) -> ids] :
        \A j, k \in 1..Cardinality(ids) :
            j < k => f[j] # f[k] /\ tbl[f[j]].created_at >= tbl[f[k]].created_at}

\* SELECT ... FROM messages WHERE room = $1 ORDER BY created_at DESC LIMIT $2,
\* then result.rows.reverse(): the results the call may return, as sequences
\* of row ids.  A negative LIMIT is refused by the database.
getMessagesForRoom(tbl, room, limit) ==
    LET ids == RoomIds(tbl, room)
    IN  [ok |-> limit >= 0,
         results |-> IF limit >= 0
                     THEN {Reverse(SubSeq(f, 1, Min(limit, Cardinality(ids)))) :
                              f \in ByCreatedAtDesc(tbl, ids)}
                     ELSE {<<>>}]

(***************************************************************************)
(* db.ts: message_attachments                                               *)
(***************************************************************************)
\* INSERT INTO message_attachments (uploader_user_id, ...) VALUES ... : one
\* pending row (message_id NULL) per upload; no statement for no uploads.
createMessageAttachments(tbl, seq, now, uploaderUserId, nUploads) ==
    LET ids == (seq + 1)..(seq + nUploads)
    IN  [rows |-> ids, seq |-> seq + nUploads,
         table |-> tbl @@ [a \in ids |->
                     [id |-> a, message_id |-> NULL,
                      uploader_user_id |-> uploaderUserId,
                      created_at |-> now]]]

\* The UPDATE without its "message_id IS NULL" guard.
assignAttachmentsToMessage_rebind(tbl, attachmentIds, messageId, userId) ==
    LET hit == {a \in DOMAIN tbl :
                  a \in attachmentIds /\ tbl[a].uploader_user_id = userId}
    IN  [rows |-> hit,
         table |-> [a \in DOMAIN tbl |->
                      IF a \in hit THEN [tbl[a] EXCEPT !.message_id = messageId]
                      ELSE tbl[a]]]

\* The UPDATE without its "uploader_user_id = $3" guard.
assignAttachmentsToMessage_anyone(tbl, attachmentIds, messageId, userId) ==
    LET hit == {a \in DOMAIN tbl :
                  a \in attachmentIds /\ tbl[a].message_id = NULL}
    IN  [rows |-> hit,
         table |-> [a \in DOMAIN tbl |->
                      IF a \in hit THEN [tbl[a] EXCEPT !.message_id = messageId]
                      ELSE tbl[a]]]

\* The UPDATE returning every id it was asked for.
assignAttachmentsToMessage_echo(tbl, attachmentIds, messageId, userId) ==
    LET hit == {a \in DOMAIN tbl :
                  /\ a \in attachmentIds
                  /\ tbl[a].uploader_user_id = userId
                  /\ tbl[a].message_id = NULL}
    IN  [rows |-> attachmentIds \cap DOMAIN tbl,
         table |-> [a \in DOMAIN tbl |->
                      IF a \in hit THEN [tbl[a] EXCEPT !.message_id = messageId]
                      ELSE tbl[a]]]

\* UPDATE message_attachments SET message_id = $1
\* WHERE id = ANY($2) AND uploader_user_id = $3 AND message_id IS NULL
\* RETURNING ...   (attachmentIds is used for membership only: a set)
assignAttachmentsToMessage(tbl, attachmentIds, messageId, userId) ==
    IF attachmentIds = {} THEN [rows |-> {}, table |-> tbl]
    ELSE
    LET hit == {a \in DOMAIN tbl :
                  /\ a \in attachmentIds
                  /\ tbl[a].uploader_user_id = userId
                  /\ tbl[a].message_id = NULL}
    IN  [rows |-> hit,
         table |-> [a \in DOMAIN tbl |->
                      IF a \in hit THEN [tbl[a] EXCEPT !.message_id = messageId]
                      ELSE tbl[a]]]

(***************************************************************************)
(* db.ts: message_reads                                                     *)
(***************************************************************************)
\* GREATEST replaced by the proposed value.
Greatest_proposed(a, b) == b

\* GREATEST(a, b) of two integers.
Greatest(a, b) == IF a >= b THEN a ELSE b

\* INSERT INTO message_reads (room, user_id, last_read_message_id)
\* VALUES ($1, $2, $3)
\* ON CONFLICT (room, user_id) DO UPDATE
\*   SET last_read_message_id = GREATEST(message_reads.last_read_message_id,
\*                                       EXCLUDED.last_read_message_id),
\*       updated_at = NOW()
\* RETURNING ...
\* The proposed row takes a sequence value also when it conflicts.  The row
\* written must reference a stored message (last_read_message_id REFERENCES
\* messages(id)); the reference is checked for an inserted row and for an
\* updated row whose last_read_message_id changed.
upsertReadReceipt(tbl, seq, now, room, userId, lastReadMessageId) ==
    LET old == {r \in tbl : r.room = room /\ r.user_id = userId}
        row == [id |-> seq + 1, room |-> room, user_id |-> userId,
                last_read_message_id |-> lastReadMessageId, updated_at |-> now]
        new == IF old = {} THEN {row}
               ELSE {[r EXCEPT
                        !.last_read_message_id =
                            Greatest(r.last_read_message_id, lastReadMessageId),
                        !.updated_at = now] : r \in old}
        ok  == /\ userId \in DOMAIN users
               /\ \A n \in new :
                     \/ n.last_read_message_id \in DOMAIN messages
                     \/ \E r \in old :
                           r.last_read_message_id = n.last_read_message_id
    IN  [ok |-> ok, seq |-> seq + 1,
         table |-> IF ok THEN (tbl \ old) \cup new ELSE tbl,
         rows |-> IF ok THEN new ELSE {}]

\* last_reads without its WHERE user_id = $1.
LastReads_everyone(userId) == reads

\* WITH last_reads AS (SELECT room, last_read_message_id FROM message_reads
\*                     WHERE user_id = $1)
LastReads(userId) == {r \in reads : r.user_id = userId}

\* FROM messages m LEFT JOIN last_reads lr ON lr.room = m.room: one joined
\* row per matching watermark row, and one with lr NULL for a message that
\* matches none.
JoinLastReads(userId) ==
    LET lrs == LastReads(userId)
    IN  {[m |-> p[1], lr |-> p[2].last_read_message_id, lrid |-> p[2].id] :
            p \in {q \in (DOMAIN messages) \X lrs :
                     q[2].room = messages[q[1]].room}}
        \cup
        {[m |-> m, lr |-> NULL, lrid |-> NULL] :
            m \in {x \in DOMAIN messages :
                     \A r \in lrs : r.room # messages[x].room}}

\* SELECT m.room AS room, COUNT(*)::int AS unread_count ... GROUP BY m.room:
\* one row per room that has a joined row.
GroupByRoom(joined) ==
    {[room |-> rm,
      unread_count |-> Cardinality({j \in joined : messages[j.m].room = rm})] :
        rm \in {messages[j.m].room : j \in joined}}

\* The WHERE clause counting a message the watermark itself names.
UnreadWhere_inclusive(j, userId) ==
    /\ j.lr = NULL \/ j.m >= j.lr
    /\ messages[j.m].user_id # userId
    /\ messages[j.m].deleted_at = NULL

\* WHERE (lr.last_read_message_id IS NULL OR m.id > lr.last_read_message_id)
\*   AND m.user_id IS DISTINCT FROM $1 AND m.deleted_at IS NULL
UnreadWhere(j, userId) ==
    /\ j.lr = NULL \/ j.m > j.lr
    /\ messages[j.m].user_id # userId
    /\ messages[j.m].deleted_at = NULL

getUnreadCountsForUser(userId) ==
    GroupByRoom({j \in JoinLastReads(userId) : UnreadWhere(j, userId)})

\* LOWER of one character (ILIKE folds case).
UpperCase == <<"A", "B", "C", "D", "E", "F", "G", "H", "I", "J", "K", "L", "M",
               "N", "O", "P", "Q", "R", "S", "T", "U", "V", "W", "X", "Y", "Z">>
LowerCase == <<"a", "b", "c", "d", "e", "f", "g", "h", "i", "j", "k", "l", "m",
               "n", "o", "p", "q", "r", "s", "t", "u", "v", "w", "x", "y", "z">>

\* The lower-case letter of each upper-case letter.
LowerOf ==
    [c \in {UpperCase[n] : n \in 1..26} |->
        LowerCase[CHOOSE n \in 1..26 : UpperCase[n] = c]]

LowerChar(c) == IF c \in DOMAIN LowerOf THEN LowerOf[c] ELSE c

Lower(str) == [n \in 1..Len(str) |-> LowerChar(str[n])]

\* str LIKE pattern: % matches any run of characters, _ any one character.
RECURSIVE Like(_, _)
Like(str, pattern) ==
    IF pattern = <<>> THEN str = <<>>
    ELSE IF Head(pattern) = "%"
    THEN \E k \in 0..Len(str) : Like(SubSeq(str, k + 1, Len(str)), Tail(pattern))
    ELSE /\ str # <<>>
         /\ Head(pattern) = "_" \/ Head(pattern) = Head(str)
         /\ Like(Tail(str), Tail(pattern))

ILike(str, pattern) == Like(Lower(str), Lower(pattern))

\* The mention query: the unread query joined with the user's own row
\* (JOIN me ON TRUE) and narrowed by
\*   m.message ILIKE '%' || '@' || me.display_name || '%'
getMentionUnreadCountsForUser(userId) ==
    LET me == {u \in DOMAIN users : u = userId}
    IN  GroupByRoom(
          {j \in JoinLastReads(userId) :
              /\ UnreadWhere(j, userId)
              /\ \E u \in me :
                    ILike(messages[j.m].message,
                          <<"%", "@">> \o users[u].display_name \o <<"%">>)})

\* index.ts: for (const row of rows) byRoom[row.room] = row.unread_count
ByRoom(rows) ==
    [rm \in {x.room : x \in rows} |->
        (CHOOSE x \in rows : x.room = rm).unread_count]

\* page.tsx: unreadCounts[room] ?? 0
CountFor(map, room) == IF room \in DOMAIN map THEN map[room] ELSE 0

(***************************************************************************)
(* db.ts: message_reactions                                                 *)
(***************************************************************************)
\* The INSERT without its ON CONFLICT guard: a duplicate is refused by the
\* UNIQUE constraint.
addReactionForUser_conflict(tbl, seq, messageId, userId, emoji) ==
    LET conflict == \E r \in tbl : /\ r.message_id = messageId
                                   /\ r.user_id = userId
                                   /\ r.emoji = emoji
        ok == ~conflict /\ messageId \in DOMAIN messages /\ userId \in DOMAIN users
        row == [id |-> seq + 1, message_id |-> messageId, user_id |-> userId,
                emoji |-> emoji]
    IN  [ok |-> ok, seq |-> seq + 1,
         table |-> IF ok THEN tbl \cup {row} ELSE tbl]

\* The INSERT without its ON CONFLICT guard and without the UNIQUE constraint.
addReactionForUser_duplicate(tbl, seq, messageId, userId, emoji) ==
    LET ok == messageId \in DOMAIN messages /\ userId \in DOMAIN users
        row == [id |-> seq + 1, message_id |-> messageId, user_id |-> userId,
                emoji |-> emoji]
    IN  [ok |-> ok, seq |-> seq + 1,
         table |-> IF ok THEN tbl \cup {row} ELSE tbl]

\* INSERT INTO message_reactions (message_id, user_id, emoji)
\* VALUES ($1, $2, $3) ON CONFLICT (message_id, user_id, emoji) DO NOTHING
\* The proposed row takes a sequence value also when it conflicts; a row for
\* a message or user that is not stored is refused by its foreign key.
addReactionForUser(tbl, seq, messageId, userId, emoji) ==
    LET conflict == \E r \in tbl : /\ r.message_id = messageId
                                   /\ r.user_id = userId
                                   /\ r.emoji = emoji
        ok == conflict \/ (messageId \in DOMAIN messages /\ userId \in DOMAIN users)
        row == [id |-> seq + 1, message_id |-> messageId, user_id |-> userId,
                emoji |-> emoji]
    IN  [ok |-> ok, seq |-> seq + 1,
         table |-> IF ok /\ ~conflict THEN tbl \cup {row} ELSE tbl]

\* DELETE FROM message_reactions
\* WHERE message_id = $1 AND user_id = $2 AND emoji = $3
removeReactionForUser(tbl, messageId, userId, emoji) ==
    [ok |-> TRUE,
     table |-> {r \in tbl : ~(/\ r.message_id = messageId
                              /\ r.user_id = userId
                              /\ r.emoji = emoji)}]

\* String.prototype.trim for text whose only white space is the blank.
RECURSIVE TrimStart(_)
TrimStart(str) ==
    IF str # <<>> /\ Head(str) = " " THEN TrimStart(Tail(str)) ELSE str

RECURSIVE TrimEnd(_)
TrimEnd(str) ==
    IF str # <<>> /\ str[Len(str)] = " "
    THEN TrimEnd(SubSeq(str, 1, Len(str) - 1)) ELSE str

Trim(str) == TrimEnd(TrimStart(str))

(***************************************************************************)
(* db.ts: conversations, conversation_participants                          *)
(***************************************************************************)
\* getChannelParticipantRole returns null when there is no row.
NoRole == ""

\* SELECT role FROM conversation_participants
\* WHERE conversation_id = $1 AND user_id = $2
getChannelParticipantRole(tbl, channelId, userId) ==
    LET rows == {p \in tbl : p.conversation_id = channelId /\ p.user_id = userId}
    IN  IF rows = {} THEN NoRole ELSE (CHOOSE p \in rows : TRUE).role

\* The INSERT taking over an existing row: ON CONFLICT DO UPDATE SET role.
addUserToChannel_update(convs, tbl, channelId, userId) ==
    LET ok == channelId \in DOMAIN convs /\ userId \in DOMAIN users
    IN  [ok |-> ok,
         table |-> IF ok
                   THEN {p \in tbl : ~(p.conversation_id = channelId
                                        /\ p.user_id = userId)}
                        \cup {[conversation_id |-> channelId, user_id |-> userId,
                               role |-> "member"]}
                   ELSE tbl]

\* INSERT INTO conversation_participants (conversation_id, user_id, role)
\* VALUES ($1, $2, 'member') ON CONFLICT (conversation_id, user_id) DO NOTHING
\* The row must reference a stored conversation and a stored user.
addUserToChannel(convs, tbl, channelId, userId) ==
    LET conflict == \E p \in tbl : p.conversation_id = channelId
                                   /\ p.user_id = userId
        ok == conflict \/ (channelId \in DOMAIN convs /\ userId \in DOMAIN users)
    IN  [ok |-> ok,
         table |-> IF ok /\ ~conflict
                   THEN tbl \cup {[conversation_id |-> channelId,
                                   user_id |-> userId, role |-> "member"]}
                   ELSE tbl]

\* The DELETE without its user_id condition.
removeUserFromChannel_everyone(tbl, channelId, userId) ==
    {p \in tbl : p.conversation_id # channelId}

\* DELETE FROM conversation_participants
\* WHERE conversation_id = $1 AND user_id = $2
removeUserFromChannel(tbl, channelId, userId) ==
    {p \in tbl : ~(p.conversation_id = channelId /\ p.user_id = userId)}

\* updateChannelParticipantRole: sets the role of the (channel, user) row and
\* returns it, or null when there is no such row.
updateChannelParticipantRole(tbl, channelId, userId, role) ==
    LET hit == {p \in tbl : p.conversation_id = channelId /\ p.user_id = userId}
    IN  [updated |-> hit # {},
         table |-> (tbl \ hit) \cup {[p EXCEPT !.role = role] : p \in hit}]

\* INSERT INTO conversations (id, type, title, slug, is_public, created_by)
\* VALUES ($1, 'channel', $2, NULL, false, $5): the first statement of
\* createChannelForUser.  created_by must reference a stored user.
insertConversation(convs, id, title, userId) ==
    LET ok == id \notin DOMAIN convs /\ userId \in DOMAIN users
    IN  [ok |-> ok,
         table |-> IF ok
                   THEN convs @@ (id :> [id |-> id, type |-> "channel",
                                         title |-> title, created_by |-> userId])
                   ELSE convs]

\* INSERT INTO conversation_participants (conversation_id, user_id, role)
\* VALUES ($1, $2, 'owner') ON CONFLICT (conversation_id, user_id) DO NOTHING:
\* the second statement of createChannelForUser.
insertOwner(convs, tbl, channelId, userId) ==
    LET conflict == \E p \in tbl : p.conversation_id = channelId
                                   /\ p.user_id = userId
        ok == conflict \/ (channelId \in DOMAIN convs /\ userId \in DOMAIN users)
    IN  [ok |-> ok,
         table |-> IF ok /\ ~conflict
                   THEN tbl \cup {[conversation_id |-> channelId,
                                   user_id |-> userId, role |-> "owner"]}
                   ELSE tbl]

\* DELETE FROM conversations WHERE id = $1 AND type = 'channel'.  The rows of
\* conversation_participants reference conversations(id) ON DELETE CASCADE;
\* messages.room is plain text and references nothing.
deleteChannelById(convs, tbl, channelId) ==
    LET hit == {c \in DOMAIN convs : c = channelId /\ convs[c].type = "channel"}
    IN  [deleted |-> hit # {},
         conversations |-> [c \in DOMAIN convs \ hit |-> convs[c]],
         participants |-> {p \in tbl : p.conversation_id \notin hit}]

(***************************************************************************)
(* index.ts: POST /uploads                                                  *)
(***************************************************************************)
\* The route stores one pending attachment per uploaded file for the caller.
UploadFiles(userId, nFiles) ==
    /\ nFiles > 0
    /\ LET r == createMessageAttachments(attachments, attachmentSeq, clock,
                                          userId, nFiles)
       IN  /\ attachments' = r.table
           /\ attachmentSeq' = r.seq
    /\ UNCHANGED <<users, chanVars, msgVars, reactVars, readVars, clock, connVars,
                   tasks, emitted, dmVars>>

(***************************************************************************)
(* index.ts: io.on("connection"), socket.on("disconnect")                   *)
(***************************************************************************)
\* A refused handshake that leaves the socket connected.
Refuse_connected(sock, why) ==
    /\ emitted' = Append(emitted,
          [NewEvent("error", ToSocket(sock)) EXCEPT
             !.recipients = {sock}, !.type = why])
    /\ connState' = [connState EXCEPT ![sock] = "open"]
    /\ rooms' = [rooms EXCEPT ![sock] = {sock}]
    /\ UNCHANGED socketData

\* The error event of a refused handshake reaches the connecting socket,
\* which is then closed (socket.disconnect(true)) with no handler registered.
Refuse(sock, why) ==
    /\ emitted' = Append(emitted,
          [NewEvent("error", ToSocket(sock)) EXCEPT
             !.recipients = {sock}, !.type = why])
    /\ connState' = [connState EXCEPT ![sock] = "closed"]
    /\ rooms' = [rooms EXCEPT ![sock] = {}]
    /\ UNCHANGED socketData

\* A client connects: the socket is in the room of its own id.  Without a
\* token, or with one verifyToken throws on, the handshake is refused;
\* otherwise socket.data.user is bound from the token's claims and the event
\* handlers are registered.
Connect(sock, token) ==
    /\ connState[sock] = "idle"
    /\ IF ~token.present THEN Refuse(sock, "required")
       ELSE IF ~verifyToken(token).ok THEN Refuse(sock, "failed")
       ELSE /\ socketData' = [socketData EXCEPT ![sock] =
                                [id |-> verifyToken(token).payload.sub,
                                 displayName |->
                                    verifyToken(token).payload.displayName]]
            /\ connState' = [connState EXCEPT ![sock] = "open"]
            /\ rooms' = [rooms EXCEPT ![sock] = {sock}]
            /\ UNCHANGED emitted
    /\ tasks' = Append(tasks, [NewTask("connection", sock) EXCEPT !.token = token])
    /\ UNCHANGED <<users, chanVars, msgVars, attVars, reactVars, readVars, clock,
                   dmVars>>

\* A close that abandons the handlers of the socket that wait for a statement.
Disconnect_cancel(sock) ==
    /\ connState[sock] = "open"
    /\ connState' = [connState EXCEPT ![sock] = "closed"]
    /\ rooms' = [rooms EXCEPT ![sock] = {}]
    /\ tasks' = Append([i \in DOMAIN tasks |->
                          IF tasks[i].sock = sock /\ tasks[i].pc # "done"
                          THEN [tasks[i] EXCEPT !.pc = "done", !.err = TRUE]
                          ELSE tasks[i]],
                       NewTask("disconnect", sock))
    /\ UNCHANGED <<users, chanVars, msgVars, attVars, reactVars, readVars, clock,
                   socketData, emitted, dmVars>>

\* A close that leaves the socket in its rooms.
Disconnect_subscribed(sock) ==
    /\ connState[sock] = "open"
    /\ connState' = [connState EXCEPT ![sock] = "closed"]
    /\ tasks' = Append(tasks, NewTask("disconnect", sock))
    /\ UNCHANGED <<users, chanVars, msgVars, attVars, reactVars, readVars, clock,
                   socketData, rooms, emitted, dmVars>>

\* The connection closes: Socket.IO takes the socket out of every room; the
\* handler logs.  Handlers that are waiting for a statement go on.
Disconnect(sock) ==
    /\ connState[sock] = "open"
    /\ connState' = [connState EXCEPT ![sock] = "closed"]
    /\ rooms' = [rooms EXCEPT ![sock] = {}]
    /\ tasks' = Append(tasks, NewTask("disconnect", sock))
    /\ UNCHANGED <<users, chanVars, msgVars, attVars, reactVars, readVars, clock,
                   socketData, emitted, dmVars>>

(***************************************************************************)
(* index.ts: socket.on("join_room"), socket.on("typing")                    *)
(***************************************************************************)
\* socket.join(room); socket.to(room).emit("user_joined", ...)
JoinRoom(sock, room) ==
    /\ connState[sock] = "open"
    /\ rooms' = [rooms EXCEPT ![sock] = @ \cup {room}]
    /\ emitted' = Append(emitted,
          [NewEvent("user_joined", ToOthers(room, sock)) EXCEPT
             !.userId = socketData[sock].id,
             !.user = socketData[sock].displayName])
    /\ tasks' = Append(tasks, [NewTask("join_room", sock) EXCEPT !.room = room])
    /\ UNCHANGED <<users, chanVars, msgVars, attVars, reactVars, readVars, clock,
                   socketData, connState, dmVars>>

\* typing published with io.to(room), the sender included.
Typing_everyone(sock, room, isTyping) ==
    /\ connState[sock] = "open"
    /\ emitted' = Append(emitted,
          [NewEvent("typing", ToRoom(room)) EXCEPT
             !.room = room, !.userId = socketData[sock].id,
             !.user = socketData[sock].displayName, !.isTyping = isTyping])
    /\ tasks' = Append(tasks, [NewTask("typing", sock) EXCEPT !.room = room])
    /\ UNCHANGED <<users, chanVars, msgVars, attVars, reactVars, readVars, clock,
                   connVars, dmVars>>

\* socket.to(room).emit("typing", { room, user, userId, isTyping })
Typing(sock, room, isTyping) ==
    /\ connState[sock] = "open"
    /\ emitted' = Append(emitted,
          [NewEvent("typing", ToOthers(room, sock)) EXCEPT
             !.room = room, !.userId = socketData[sock].id,
             !.user = socketData[sock].displayName, !.isTyping = isTyping])
    /\ tasks' = Append(tasks, [NewTask("typing", sock) EXCEPT !.room = room])
    /\ UNCHANGED <<users, chanVars, msgVars, attVars, reactVars, readVars, clock,
                   connVars, dmVars>>

(***************************************************************************)
(* index.ts: socket.on("chat_message")                                      *)
(***************************************************************************)
\* chat_message publishing before the INSERT has been acknowledged.
ChatMessage_optimistic(sock, room, message, replyToMessageId, attachmentIds) ==
    /\ connState[sock] = "open"
    /\ tasks' = Append(tasks,
          [NewTask("chat_message", sock) EXCEPT
             !.pc = "saveMessage", !.startedAt = clock,
             !.room = room, !.message = message,
             !.replyToMessageId = replyToMessageId,
             !.attachmentIds = attachmentIds])
    /\ emitted' = Append(emitted,
          [NewEvent("chat_message", ToRoom(room)) EXCEPT
             !.room = room, !.message = message,
             !.userId = socketData[sock].id,
             !.user = socketData[sock].displayName,
             !.replyToMessageId = replyToMessageId])
    /\ UNCHANGED <<users, chanVars, msgVars, attVars, reactVars, readVars, clock,
                   connVars, dmVars>>

\* The handler up to its first await: saveMessage is issued.
ChatMessage(sock, room, message, replyToMessageId, attachmentIds) ==
    /\ connState[sock] = "open"
    /\ tasks' = Append(tasks,
          [NewTask("chat_message", sock) EXCEPT
             !.pc = "saveMessage", !.startedAt = clock,
             !.room = room, !.message = message,
             !.replyToMessageId = replyToMessageId,
             !.attachmentIds = attachmentIds])
    /\ UNCHANGED <<users, chanVars, msgVars, attVars, reactVars, readVars, clock,
                   connVars, emitted, dmVars>>

ChatEvent(t, u, atts) ==
    [NewEvent("chat_message", ToRoom(t.room)) EXCEPT
       !.room = t.room, !.message = t.message, !.userId = u.id,
       !.user = u.displayName,
       !.messageId = t.saved, !.replyToMessageId = t.replyToMessageId,
       !.attachments = atts]

\* The INSERT runs.  created_at defaults to NOW(), the time at which the
\* statement's transaction started: some time between the handler issuing the
\* statement and the row (and its id) being stored.  A refused row rejects
\* the promise: the outer catch logs.  When the payload names attachments the
\* code after the await only issues the bind, so the task then waits for the
\* UPDATE.
DbSaveMessage(i) ==
    /\ tasks[i].pc = "saveMessage"
    /\ \E now \in tasks[i].startedAt..clock :
       LET t == tasks[i]
           u == socketData[t.sock]
           r == saveMessage(messages, messageSeq, now, t.room, u.displayName,
                            t.message, u.id, t.replyToMessageId)
       IN  /\ messages' = r.table
           /\ messageSeq' = r.seq
           /\ SetTask(i, IF ~r.ok THEN [t EXCEPT !.pc = "done", !.err = TRUE]
                         ELSE IF t.attachmentIds # {}
                         THEN [t EXCEPT !.pc = "assign", !.saved = r.id]
                         ELSE [t EXCEPT !.pc = "saved", !.saved = r.id])
    /\ clock' = clock + 1
    /\ UNCHANGED <<users, chanVars, attVars, reactVars, readVars, connVars, emitted,
                   dmVars>>

\* After saveMessage with no attachment named: broadcast with attachments [].
ContinueSaved(i) ==
    /\ tasks[i].pc = "saved"
    /\ LET t == tasks[i]
       IN  /\ SetTask(i, [t EXCEPT !.pc = "done"])
           /\ emitted' = Append(emitted, ChatEvent(t, socketData[t.sock], {}))
    /\ UNCHANGED <<users, chanVars, msgVars, attVars, reactVars, readVars, clock,
                   connVars, dmVars>>

\* The conditional UPDATE runs.
DbAssignAttachments(i) ==
    /\ tasks[i].pc = "assign"
    /\ LET t == tasks[i]
           r == assignAttachmentsToMessage(attachments, t.attachmentIds,
                                           t.saved, socketData[t.sock].id)
       IN  /\ attachments' = r.table
           /\ SetTask(i, [t EXCEPT !.pc = "assigned", !.rows = r.rows])
    /\ UNCHANGED <<users, chanVars, msgVars, attachmentSeq, reactVars, readVars, clock,
                   connVars, emitted, dmVars>>

\* After the bind: the broadcast carries the rows the UPDATE returned.
ContinueAssigned(i) ==
    /\ tasks[i].pc = "assigned"
    /\ LET t == tasks[i]
       IN  /\ SetTask(i, [t EXCEPT !.pc = "done"])
           /\ emitted' = Append(emitted, ChatEvent(t, socketData[t.sock], t.rows))
    /\ UNCHANGED <<users, chanVars, msgVars, attVars, reactVars, readVars, clock,
                   connVars, dmVars>>

(***************************************************************************)
(* index.ts: socket.on("edit_message")                                      *)
(***************************************************************************)
\* const trimmed = payload.newContent.trim(); if (!trimmed) return;
\* otherwise the UPDATE is issued with the trimmed body.
EditMessage(sock, messageId, newContent) ==
    /\ connState[sock] = "open"
    /\ tasks' = Append(tasks,
          IF Trim(newContent) = <<>>
          THEN [NewTask("edit_message", sock) EXCEPT !.messageId = messageId]
          ELSE [NewTask("edit_message", sock) EXCEPT
                  !.pc = "editMessage", !.messageId = messageId,
                  !.message = Trim(newContent)])
    /\ UNCHANGED <<users, chanVars, msgVars, attVars, reactVars, readVars, clock,
                   connVars, emitted, dmVars>>

\* The UPDATE runs.  With no row returned the handler returns at once.
DbEditMessage(i) ==
    /\ tasks[i].pc = "editMessage"
    /\ LET t == tasks[i]
           r == editMessageForUser(messages, clock, t.messageId,
                                   socketData[t.sock].id, t.message)
       IN  /\ messages' = r.table
           /\ SetTask(i, [t EXCEPT !.rows = r.rows,
                            !.pc = IF r.rows = {} THEN "done" ELSE "edited"])
    /\ UNCHANGED <<users, chanVars, messageSeq, attVars, reactVars, readVars, clock,
                   connVars, emitted, dmVars>>

\* io.to(updated.room).emit("message_edited", ...) with the returned row.
ContinueEdited(i) ==
    /\ tasks[i].pc = "edited"
    /\ LET t == tasks[i]
           m == messages[t.messageId]
       IN  /\ SetTask(i, [t EXCEPT !.pc = "done"])
           /\ emitted' = Append(emitted,
                 [NewEvent("message_edited", ToRoom(m.room)) EXCEPT
                    !.room = m.room, !.messageId = t.messageId,
                    !.message = t.message])
    /\ UNCHANGED <<users, chanVars, msgVars, attVars, reactVars, readVars, clock,
                   connVars, dmVars>>

(***************************************************************************)
(* index.ts: socket.on("delete_message")                                    *)
(***************************************************************************)
DeleteMessage(sock, messageId) ==
    /\ connState[sock] = "open"
    /\ tasks' = Append(tasks,
          [NewTask("delete_message", sock) EXCEPT
             !.pc = "softDelete", !.messageId = messageId])
    /\ UNCHANGED <<users, chanVars, msgVars, attVars, reactVars, readVars, clock,
                   connVars, emitted, dmVars>>

\* delete_message going on to publish whenever the message is stored.
DbSoftDeleteMessage_always(i) ==
    /\ tasks[i].pc = "softDelete"
    /\ LET t == tasks[i]
           r == softDeleteMessageForUser(messages, clock, t.messageId,
                                         socketData[t.sock].id)
       IN  /\ messages' = r.table
           /\ SetTask(i, [t EXCEPT !.rows = r.rows,
                            !.pc = IF t.messageId \in DOMAIN messages
                                   THEN "deleted" ELSE "done"])
    /\ UNCHANGED <<users, chanVars, messageSeq, attVars, reactVars, readVars, clock,
                   connVars, emitted, dmVars>>

\* The UPDATE runs.  With no row returned the handler returns at once.
DbSoftDeleteMessage(i) ==
    /\ tasks[i].pc = "softDelete"
    /\ LET t == tasks[i]
           r == softDeleteMessageForUser(messages, clock, t.messageId,
                                         socketData[t.sock].id)
       IN  /\ messages' = r.table
           /\ SetTask(i, [t EXCEPT !.rows = r.rows,
                            !.pc = IF r.rows = {} THEN "done" ELSE "deleted"])
    /\ UNCHANGED <<users, chanVars, messageSeq, attVars, reactVars, readVars, clock,
                   connVars, emitted, dmVars>>

\* io.to(deleted.room).emit("message_deleted", ...)
ContinueDeleted(i) ==
    /\ tasks[i].pc = "deleted"
    /\ LET t == tasks[i]
           m == messages[t.messageId]
       IN  /\ SetTask(i, [t EXCEPT !.pc = "done"])
           /\ emitted' = Append(emitted,
                 [NewEvent("message_deleted", ToRoom(m.room)) EXCEPT
                    !.room = m.room, !.messageId = t.messageId])
    /\ UNCHANGED <<users, chanVars, msgVars, attVars, reactVars, readVars, clock,
                   connVars, dmVars>>

(***************************************************************************)
(* index.ts: socket.on("mark_read")                                         *)
(***************************************************************************)
\* if (!payload.room || !payload.messageId) return; otherwise the upsert is
\* issued.
MarkRead(sock, room, messageId) ==
    /\ connState[sock] = "open"
    /\ tasks' = Append(tasks,
          [NewTask("mark_read", sock) EXCEPT
             !.pc = IF room = "" \/ messageId = NULL THEN "done" ELSE "upsert",
             !.room = room, !.messageId = messageId])
    /\ UNCHANGED <<users, chanVars, msgVars, attVars, reactVars, readVars, clock,
                   connVars, emitted, dmVars>>

\* The upsert runs.  A refused row rejects the promise: the catch logs.
DbUpsertReadReceipt(i) ==
    /\ tasks[i].pc = "upsert"
    /\ LET t == tasks[i]
           r == upsertReadReceipt(reads, readSeq, clock, t.room,
                                  socketData[t.sock].id, t.messageId)
       IN  /\ reads' = r.table
           /\ readSeq' = r.seq
           /\ SetTask(i,
                IF r.ok
                THEN [t EXCEPT !.pc = "upserted",
                               !.lastRead =
                                  (CHOOSE x \in r.rows : TRUE).last_read_message_id]
                ELSE [t EXCEPT !.pc = "done", !.err = TRUE])
    /\ UNCHANGED <<users, chanVars, msgVars, attVars, reactVars, clock, connVars,
                   emitted, dmVars>>

\* io.to(payload.room).emit("read_receipt_updated", ...), then both count
\* queries are issued (Promise.all).
ContinueUpserted(i) ==
    /\ tasks[i].pc = "upserted"
    /\ LET t == tasks[i]
       IN  /\ SetTask(i, [t EXCEPT !.pc = "counts"])
           /\ emitted' = Append(emitted,
                 [NewEvent("read_receipt_updated", ToRoom(t.room)) EXCEPT
                    !.room = t.room, !.userId = socketData[t.sock].id,
                    !.lastReadMessageId = t.lastRead])
    /\ UNCHANGED <<users, chanVars, msgVars, attVars, reactVars, readVars, clock,
                   connVars, dmVars>>

\* The unread query runs.
DbUnreadCounts(i) ==
    /\ tasks[i].pc = "counts" /\ ~tasks[i].gotUnread
    /\ SetTask(i, [tasks[i] EXCEPT
          !.gotUnread = TRUE,
          !.unread = ByRoom(getUnreadCountsForUser(socketData[tasks[i].sock].id))])
    /\ UNCHANGED <<users, chanVars, msgVars, attVars, reactVars, readVars, clock,
                   connVars, emitted, dmVars>>

\* The mention query runs.
DbMentionUnreadCounts(i) ==
    /\ tasks[i].pc = "counts" /\ ~tasks[i].gotMention
    /\ SetTask(i, [tasks[i] EXCEPT
          !.gotMention = TRUE,
          !.mention =
             ByRoom(getMentionUnreadCountsForUser(socketData[tasks[i].sock].id))])
    /\ UNCHANGED <<users, chanVars, msgVars, attVars, reactVars, readVars, clock,
                   connVars, emitted, dmVars>>

\* unread_counts published to the room instead of the calling socket.
ContinueCounted_room(i) ==
    /\ tasks[i].pc = "counts" /\ tasks[i].gotUnread /\ tasks[i].gotMention
    /\ LET t == tasks[i]
       IN  /\ SetTask(i, [t EXCEPT !.pc = "done"])
           /\ emitted' = Append(emitted,
                 [NewEvent("unread_counts", ToRoom(t.room)) EXCEPT
                    !.unreadCounts = t.unread,
                    !.mentionUnreadCounts = t.mention])
    /\ UNCHANGED <<users, chanVars, msgVars, attVars, reactVars, readVars, clock,
                   connVars, dmVars>>

\* socket.emit("unread_counts", ...) once both queries have answered.
ContinueCounted(i) ==
    /\ tasks[i].pc = "counts" /\ tasks[i].gotUnread /\ tasks[i].gotMention
    /\ LET t == tasks[i]
       IN  /\ SetTask(i, [t EXCEPT !.pc = "done"])
           /\ emitted' = Append(emitted,
                 [NewEvent("unread_counts", ToSocket(t.sock)) EXCEPT
                    !.unreadCounts = t.unread,
                    !.mentionUnreadCounts = t.mention])
    /\ UNCHANGED <<users, chanVars, msgVars, attVars, reactVars, readVars, clock,
                   connVars, dmVars>>

(***************************************************************************)
(* index.ts: socket.on("add_reaction") / socket.on("remove_reaction")       *)
(***************************************************************************)
\* const emoji = payload.emoji?.trim(); if (!emoji) return; otherwise the
\* statement is issued.
AddReaction(sock, messageId, emoji, room) ==
    /\ connState[sock] = "open"
    /\ tasks' = Append(tasks,
          [NewTask("add_reaction", sock) EXCEPT
             !.pc = IF Trim(emoji) = <<>> THEN "done" ELSE "addReaction",
             !.messageId = messageId, !.emoji = Trim(emoji), !.room = room])
    /\ UNCHANGED <<users, chanVars, msgVars, attVars, reactVars, readVars, clock,
                   connVars, emitted, dmVars>>

RemoveReaction(sock, messageId, emoji, room) ==
    /\ connState[sock] = "open"
    /\ tasks' = Append(tasks,
          [NewTask("remove_reaction", sock) EXCEPT
             !.pc = IF Trim(emoji) = <<>> THEN "done" ELSE "removeReaction",
             !.messageId = messageId, !.emoji = Trim(emoji), !.room = room])
    /\ UNCHANGED <<users, chanVars, msgVars, attVars, reactVars, readVars, clock,
                   connVars, emitted, dmVars>>

\* The INSERT runs.  A refused row rejects the promise: the catch logs.
DbAddReaction(i) ==
    /\ tasks[i].pc = "addReaction"
    /\ LET t == tasks[i]
           r == addReactionForUser(reactions, reactionSeq, t.messageId,
                                   socketData[t.sock].id, t.emoji)
       IN  /\ reactions' = r.table
           /\ reactionSeq' = r.seq
           /\ SetTask(i, IF r.ok THEN [t EXCEPT !.pc = "added"]
                         ELSE [t EXCEPT !.pc = "done", !.err = TRUE])
    /\ UNCHANGED <<users, chanVars, msgVars, attVars, readVars, clock, connVars,
                   emitted, dmVars>>

\* The DELETE runs.
DbRemoveReaction(i) ==
    /\ tasks[i].pc = "removeReaction"
    /\ LET t == tasks[i]
           r == removeReactionForUser(reactions, t.messageId,
                                      socketData[t.sock].id, t.emoji)
       IN  /\ reactions' = r.table
           /\ SetTask(i, IF r.ok THEN [t EXCEPT !.pc = "removed"]
                         ELSE [t EXCEPT !.pc = "done", !.err = TRUE])
    /\ UNCHANGED <<users, chanVars, msgVars, attVars, reactionSeq, readVars, clock,
                   connVars, emitted, dmVars>>

\* io.to(payload.room).emit("reaction_updated", ...)
ContinueReaction(i) ==
    /\ tasks[i].pc \in {"added", "removed"}
    /\ LET t == tasks[i]
       IN  /\ SetTask(i, [t EXCEPT !.pc = "done"])
           /\ emitted' = Append(emitted,
                 [NewEvent("reaction_updated", ToRoom(t.room)) EXCEPT
                    !.messageId = t.messageId, !.emoji = t.emoji,
                    !.userId = socketData[t.sock].id,
                    !.type = IF t.pc = "added" THEN "added" ELSE "removed"])
    /\ UNCHANGED <<users, chanVars, msgVars, attVars, reactVars, readVars, clock,
                   connVars, dmVars>>

(***************************************************************************)
(* index.ts: authenticated HTTP routes                                      *)
(***************************************************************************)
\* A request that passed authMiddleware: req.user.sub is userId.
HttpTask(kind, userId) == [NewTask(kind, "") EXCEPT !.userId = userId]

\* return res.status(status)...
Respond(t, status) == [t EXCEPT !.pc = "done", !.status = status]

ChanFrame == UNCHANGED <<users, msgVars, attVars, reactVars, readVars, clock,
                         connVars, emitted, dmVars>>

(***************************************************************************)
(* index.ts: DELETE /channels/:channelId/members/:memberId                  *)
(***************************************************************************)
\* Any participant may remove members.
RemoveCallerStatus_anyMember(role) == IF role = NoRole THEN 403 ELSE NULL

\* if (role !== "owner") return res.status(403)
RemoveCallerStatus(role) == IF role # "owner" THEN 403 ELSE NULL

\* if (!targetRole) return 404; if (targetRole === "owner") return 400
RemoveTargetStatus(targetRole) ==
    IF targetRole = NoRole THEN 404
    ELSE IF targetRole = "owner" THEN 400 ELSE NULL

\* if (memberId === userId) return 400; otherwise the caller's role is read.
RemoveMember(userId, channelId, memberId) ==
    /\ tasks' = Append(tasks,
          LET t == [HttpTask("remove_member", userId) EXCEPT
                      !.channelId = channelId, !.memberId = memberId]
          IN  IF memberId = userId THEN Respond(t, 400)
              ELSE [t EXCEPT !.pc = "removeCallerRole"])
    /\ UNCHANGED chanVars /\ ChanFrame

DbRemoveCallerRole(i) ==
    /\ tasks[i].pc = "removeCallerRole"
    /\ LET t == tasks[i]
           role == getChannelParticipantRole(participants, t.channelId, t.userId)
           u == [t EXCEPT !.callerRole = role]
       IN  SetTask(i, IF RemoveCallerStatus(role) # NULL
                      THEN Respond(u, RemoveCallerStatus(role))
                      ELSE [u EXCEPT !.pc = "removeTargetRole"])
    /\ UNCHANGED chanVars /\ ChanFrame

DbRemoveTargetRole(i) ==
    /\ tasks[i].pc = "removeTargetRole"
    /\ LET t == tasks[i]
           role == getChannelParticipantRole(participants, t.channelId, t.memberId)
           u == [t EXCEPT !.targetRole = role]
       IN  SetTask(i, IF RemoveTargetStatus(role) # NULL
                      THEN Respond(u, RemoveTargetStatus(role))
                      ELSE [u EXCEPT !.pc = "removeUser"])
    /\ UNCHANGED chanVars /\ ChanFrame

\* await removeUserFromChannel({ channelId, userId: memberId }); 204
DbRemoveUser(i) ==
    /\ tasks[i].pc = "removeUser"
    /\ participants' = removeUserFromChannel(participants, tasks[i].channelId,
                                             tasks[i].memberId)
    /\ SetTask(i, Respond(tasks[i], 204))
    /\ UNCHANGED conversations /\ ChanFrame

(***************************************************************************)
(* index.ts: POST /channels/:channelId/leave                                *)
(***************************************************************************)
\* The owner check left out.
LeaveStatus_ownerToo(role) == IF role = NoRole THEN 403 ELSE NULL

\* if (!role) return 403; if (role === "owner") return 400
LeaveStatus(role) ==
    IF role = NoRole THEN 403 ELSE IF role = "owner" THEN 400 ELSE NULL

LeaveChannel(userId, channelId) ==
    /\ tasks' = Append(tasks,
          [HttpTask("leave", userId) EXCEPT
             !.pc = "leaveRole", !.channelId = channelId])
    /\ UNCHANGED chanVars /\ ChanFrame

DbLeaveRole(i) ==
    /\ tasks[i].pc = "leaveRole"
    /\ LET t == tasks[i]
           role == getChannelParticipantRole(participants, t.channelId, t.userId)
           u == [t EXCEPT !.callerRole = role]
       IN  SetTask(i, IF LeaveStatus(role) # NULL
                      THEN Respond(u, LeaveStatus(role))
                      ELSE [u EXCEPT !.pc = "leaveRemove"])
    /\ UNCHANGED chanVars /\ ChanFrame

\* await removeUserFromChannel({ channelId, userId }); 204
DbLeaveRemove(i) ==
    /\ tasks[i].pc = "leaveRemove"
    /\ participants' = removeUserFromChannel(participants, tasks[i].channelId,
                                             tasks[i].userId)
    /\ SetTask(i, Respond(tasks[i], 204))
    /\ UNCHANGED conversations /\ ChanFrame

(***************************************************************************)
(* index.ts: POST /channels/:channelId/invite                               *)
(***************************************************************************)
\* /^[0-9a-fA-F-]{36}$/.test(trimmedTargetId): the ids of the model are
\* UUIDs except this one.
NotAUuid == "not-a-uuid"
LooksLikeUuid(id) == id # NotAUuid

\* if (role !== "owner") return res.status(403)
InviteCallerStatus(role) == IF role # "owner" THEN 403 ELSE NULL

\* getUserById, then: no user 404; the caller 400; display name differing
\* (compared in lower case, the given one trimmed) 400.
InviteTargetStatus(userId, targetUserId, displayName) ==
    IF targetUserId \notin DOMAIN users THEN 404
    ELSE IF targetUserId = userId THEN 400
    ELSE IF Lower(users[targetUserId].display_name) # Lower(Trim(displayName))
    THEN 400 ELSE NULL

Invite(userId, channelId, targetUserId, displayName) ==
    /\ tasks' = Append(tasks,
          LET t == [HttpTask("invite", userId) EXCEPT
                      !.channelId = channelId, !.memberId = targetUserId,
                      !.displayName = displayName]
          IN  IF targetUserId = "" \/ displayName = <<>> THEN Respond(t, 400)
              ELSE IF ~LooksLikeUuid(targetUserId) THEN Respond(t, 400)
              ELSE [t EXCEPT !.pc = "inviteCallerRole"])
    /\ UNCHANGED chanVars /\ ChanFrame

DbInviteCallerRole(i) ==
    /\ tasks[i].pc = "inviteCallerRole"
    /\ LET t == tasks[i]
           role == getChannelParticipantRole(participants, t.channelId, t.userId)
           u == [t EXCEPT !.callerRole = role]
       IN  SetTask(i, IF InviteCallerStatus(role) # NULL
                      THEN Respond(u, InviteCallerStatus(role))
                      ELSE [u EXCEPT !.pc = "inviteTargetUser"])
    /\ UNCHANGED chanVars /\ ChanFrame

DbInviteTargetUser(i) ==
    /\ tasks[i].pc = "inviteTargetUser"
    /\ LET t == tasks[i]
           st == InviteTargetStatus(t.userId, t.memberId, t.displayName)
       IN  SetTask(i, IF st # NULL THEN Respond(t, st)
                      ELSE [t EXCEPT !.pc = "inviteAdd"])
    /\ UNCHANGED chanVars /\ ChanFrame

\* await addUserToChannel(...); 204, or 500 from the catch.
DbInviteAdd(i) ==
    /\ tasks[i].pc = "inviteAdd"
    /\ LET t == tasks[i]
           r == addUserToChannel(conversations, participants, t.channelId,
                                 t.memberId)
       IN  /\ participants' = r.table
           /\ SetTask(i, IF r.ok THEN Respond(t, 204)
                         ELSE [Respond(t, 500) EXCEPT !.err = TRUE])
    /\ UNCHANGED conversations /\ ChanFrame

(***************************************************************************)
(* index.ts: PATCH /channels/:channelId/members/:memberId/role              *)
(***************************************************************************)
\* The caller's role is not checked.
ChangeRoleCallerStatus_unchecked(role) == NULL

\* if (callerRole !== "owner") return res.status(403)
ChangeRoleCallerStatus(role) == IF role # "owner" THEN 403 ELSE NULL

\* if (!targetRole) return 404; if (targetRole === "owner") return 400
ChangeRoleTargetStatus(targetRole) ==
    IF targetRole = NoRole THEN 404
    ELSE IF targetRole = "owner" THEN 400 ELSE NULL

\* The requested role is not checked.
ChangeRole_anyRole(userId, channelId, memberId, role) ==
    /\ tasks' = Append(tasks,
          LET t == [HttpTask("change_role", userId) EXCEPT
                      !.channelId = channelId, !.memberId = memberId,
                      !.role = role]
          IN  IF memberId = userId THEN Respond(t, 400)
              ELSE [t EXCEPT !.pc = "roleCallerRole"])
    /\ UNCHANGED chanVars /\ ChanFrame

ChangeRole(userId, channelId, memberId, role) ==
    /\ tasks' = Append(tasks,
          LET t == [HttpTask("change_role", userId) EXCEPT
                      !.channelId = channelId, !.memberId = memberId,
                      !.role = role]
          IN  IF role \notin {"member", "moderator"} THEN Respond(t, 400)
              ELSE IF memberId = userId THEN Respond(t, 400)
              ELSE [t EXCEPT !.pc = "roleCallerRole"])
    /\ UNCHANGED chanVars /\ ChanFrame

DbRoleCallerRole(i) ==
    /\ tasks[i].pc = "roleCallerRole"
    /\ LET t == tasks[i]
           role == getChannelParticipantRole(participants, t.channelId, t.userId)
           u == [t EXCEPT !.callerRole = role]
       IN  SetTask(i, IF ChangeRoleCallerStatus(role) # NULL
                      THEN Respond(u, ChangeRoleCallerStatus(role))
                      ELSE [u EXCEPT !.pc = "roleTargetRole"])
    /\ UNCHANGED chanVars /\ ChanFrame

DbRoleTargetRole(i) ==
    /\ tasks[i].pc = "roleTargetRole"
    /\ LET t == tasks[i]
           role == getChannelParticipantRole(participants, t.channelId, t.memberId)
           u == [t EXCEPT !.targetRole = role]
       IN  SetTask(i, IF ChangeRoleTargetStatus(role) # NULL
                      THEN Respond(u, ChangeRoleTargetStatus(role))
                      ELSE [u EXCEPT !.pc = "roleUpdate"])
    /\ UNCHANGED chanVars /\ ChanFrame

\* The update refused (409) when the role is no longer the one the check read.
DbUpdateRole_compareAndSet(i) ==
    /\ tasks[i].pc = "roleUpdate"
    /\ LET t == tasks[i]
           same == getChannelParticipantRole(participants, t.channelId,
                                             t.memberId) = t.targetRole
           r == updateChannelParticipantRole(participants, t.channelId,
                                             t.memberId, t.role)
       IN  /\ participants' = IF same THEN r.table ELSE participants
           /\ SetTask(i, Respond(t, IF ~same THEN 409
                                    ELSE IF r.updated THEN 204 ELSE 500))
    /\ UNCHANGED conversations /\ ChanFrame

\* await updateChannelParticipantRole(...); if (!updated) 500; else 204
DbUpdateRole(i) ==
    /\ tasks[i].pc = "roleUpdate"
    /\ LET t == tasks[i]
           r == updateChannelParticipantRole(participants, t.channelId,
                                             t.memberId, t.role)
       IN  /\ participants' = r.table
           /\ SetTask(i, Respond(t, IF r.updated THEN 204 ELSE 500))
    /\ UNCHANGED conversations /\ ChanFrame

(***************************************************************************)
(* index.ts: POST /channels                                                 *)
(***************************************************************************)
\* The values crypto.randomUUID() returns, in the order it returns them.
ChannelIds == <<"c1", "c2", "c3">>

IssuedChannelIds ==
    {tasks[i].channelId : i \in {k \in TaskIds : tasks[k].kind = "create_channel"}}

\* if (!name || !name.trim()) return 400; otherwise createChannelForUser
\* draws the id and issues the INSERT of the channel row.
CreateChannel(userId, name) ==
    /\ \E k \in DOMAIN ChannelIds : ChannelIds[k] \notin IssuedChannelIds
    /\ tasks' = Append(tasks,
          LET t == [HttpTask("create_channel", userId) EXCEPT !.message = name]
              k == CHOOSE n \in DOMAIN ChannelIds :
                      /\ ChannelIds[n] \notin IssuedChannelIds
                      /\ \A j \in 1..(n - 1) : ChannelIds[j] \in IssuedChannelIds
          IN  IF Trim(name) = <<>> THEN Respond(t, 400)
              ELSE [t EXCEPT !.pc = "insertChannel",
                             !.channelId = ChannelIds[k]])
    /\ UNCHANGED chanVars /\ ChanFrame

DbInsertChannel(i) ==
    /\ tasks[i].pc = "insertChannel"
    /\ LET t == tasks[i]
           r == insertConversation(conversations, t.channelId, Trim(t.message),
                                   t.userId)
       IN  /\ conversations' = r.table
           /\ SetTask(i, IF r.ok THEN [t EXCEPT !.pc = "insertOwner"]
                         ELSE [Respond(t, 500) EXCEPT !.err = TRUE])
    /\ UNCHANGED participants /\ ChanFrame

\* The owner row is inserted; 201, or 500 from the catch.
DbInsertOwner(i) ==
    /\ tasks[i].pc = "insertOwner"
    /\ LET t == tasks[i]
           r == insertOwner(conversations, participants, t.channelId, t.userId)
       IN  /\ participants' = r.table
           /\ SetTask(i, IF r.ok THEN Respond(t, 201)
                         ELSE [Respond(t, 500) EXCEPT !.err = TRUE])
    /\ UNCHANGED conversations /\ ChanFrame

(***************************************************************************)
(* index.ts: DELETE /channels/:channelId                                    *)
(***************************************************************************)
\* if (role !== "owner") return res.status(403)
DeleteCallerStatus(role) == IF role # "owner" THEN 403 ELSE NULL

DeleteChannel(userId, channelId) ==
    /\ tasks' = Append(tasks,
          [HttpTask("delete_channel", userId) EXCEPT
             !.pc = "deleteCallerRole", !.channelId = channelId])
    /\ UNCHANGED chanVars /\ ChanFrame

DbDeleteCallerRole(i) ==
    /\ tasks[i].pc = "deleteCallerRole"
    /\ LET t == tasks[i]
           role == getChannelParticipantRole(participants, t.channelId, t.userId)
           u == [t EXCEPT !.callerRole = role]
       IN  SetTask(i, IF DeleteCallerStatus(role) # NULL
                      THEN Respond(u, DeleteCallerStatus(role))
                      ELSE [u EXCEPT !.pc = "deleteChannel"])
    /\ UNCHANGED chanVars /\ ChanFrame

\* const deleted = await deleteChannelById(channelId); 404 if none, else 204
DbDeleteChannel(i) ==
    /\ tasks[i].pc = "deleteChannel"
    /\ LET t == tasks[i]
           r == deleteChannelById(conversations, participants, t.channelId)
       IN  /\ conversations' = r.conversations
           /\ participants' = r.participants
           /\ SetTask(i, Respond(t, IF r.deleted THEN 204 ELSE 404))
    /\ ChanFrame

(***************************************************************************)
(* index.ts: GET /rooms/:room/messages                                      *)
(***************************************************************************)
DefaultLimit == 50

\* The limit query parameter is parsed (NULL: absent or not a number) and
\* getMessagesForRoom is issued.  The route carries no authentication.
GetMessages(room, limitParam) ==
    /\ tasks' = Append(tasks,
          [NewTask("get_messages", "") EXCEPT
             !.pc = "getMessages", !.room = room,
             !.limit = IF limitParam = NULL THEN DefaultLimit ELSE limitParam])
    /\ UNCHANGED <<users, chanVars, msgVars, attVars, reactVars, readVars, clock,
                   connVars, emitted, dmVars>>

\* The SELECT runs; rows holds the ids in the order returned.  A refused
\* statement lands in the catch: 500.
DbGetMessages(i) ==
    /\ tasks[i].pc = "getMessages"
    /\ LET t == tasks[i]
           r == getMessagesForRoom(messages, t.room, t.limit)
       IN  \E rows \in r.results :
              SetTask(i, IF r.ok THEN [t EXCEPT !.pc = "decorate", !.history = rows]
                         ELSE [t EXCEPT !.pc = "done", !.err = TRUE, !.status = 500])
    /\ UNCHANGED <<users, chanVars, msgVars, attVars, reactVars, readVars, clock,
                   connVars, emitted, dmVars>>

\* The reactions, receipts, count and attachments of the rows are read and
\* res.json({ messages, ... }) lists the rows in the order they were returned.
ContinueGetMessages(i) ==
    /\ tasks[i].pc = "decorate"
    /\ SetTask(i, [tasks[i] EXCEPT !.pc = "done", !.status = 200])
    /\ UNCHANGED <<users, chanVars, msgVars, attVars, reactVars, readVars, clock,
                   connVars, emitted, dmVars>>

(***************************************************************************)
(* index.ts: PATCH /me/profile                                              *)
(***************************************************************************)
\* UPDATE users SET display_name = $1, updated_at = NOW() WHERE id = $n
\* RETURNING ...
updateUserProfile(tbl, userId, displayName) ==
    [found |-> userId \in DOMAIN tbl,
     table |-> [u \in DOMAIN tbl |->
                  IF u = userId THEN [tbl[u] EXCEPT !.display_name = displayName]
                  ELSE tbl[u]]]

\* A displayName that trims to nothing is refused with 400.
UpdateProfile(userId, displayName) ==
    /\ tasks' = Append(tasks,
          LET t == [HttpTask("update_profile", userId) EXCEPT
                      !.displayName = displayName]
          IN  IF Trim(displayName) = <<>> THEN Respond(t, 400)
              ELSE [t EXCEPT !.pc = "updateProfile"])
    /\ UNCHANGED <<users, chanVars, msgVars, attVars, reactVars, readVars, clock,
                   connVars, emitted, dmVars>>

\* The profile update also rewriting the identity of the user's sockets.
DbUpdateProfile_rebind(i) ==
    /\ tasks[i].pc = "updateProfile"
    /\ LET t == tasks[i]
           r == updateUserProfile(users, t.userId, t.displayName)
       IN  /\ users' = r.table
           /\ socketData' = [s \in Sockets |->
                               IF socketData[s].id = t.userId
                               THEN [socketData[s] EXCEPT
                                       !.displayName = t.displayName]
                               ELSE socketData[s]]
           /\ SetTask(i, Respond(t, IF r.found THEN 200 ELSE 404))
    /\ UNCHANGED <<chanVars, msgVars, attVars, reactVars, readVars, clock,
                   connState, rooms, emitted, dmVars>>

DbUpdateProfile(i) ==
    /\ tasks[i].pc = "updateProfile"
    /\ LET t == tasks[i]
           r == updateUserProfile(users, t.userId, t.displayName)
       IN  /\ users' = r.table
           /\ SetTask(i, Respond(t, IF r.found THEN 200 ELSE 404))
    /\ UNCHANGED <<chanVars, msgVars, attVars, reactVars, readVars, clock,
                   connVars, emitted, dmVars>>

(***************************************************************************)
(* page.tsx: getDmRoomId                                                    *)
(***************************************************************************)
\* The UTF-16 code unit of a character of an id.
CodeUnit(c) == CASE c = "0" -> 48 [] c = "1" -> 49 [] c = "a" -> 97

\* a < b as Array.prototype.sort compares strings: by code units, a proper
\* prefix first.
RECURSIVE StrLess(_, _)
StrLess(a, b) ==
    IF b = <<>> THEN FALSE
    ELSE IF a = <<>> THEN TRUE
    ELSE IF Head(a) # Head(b) THEN CodeUnit(Head(a)) < CodeUnit(Head(b))
    ELSE StrLess(Tail(a), Tail(b))

\* The array left as it is given.
SortPair_unsorted(pair) == pair

\* [x, y].sort(): the two elements swapped when the second sorts first.
SortPair(pair) ==
    IF StrLess(pair[2], pair[1]) THEN <<pair[2], pair[1]>> ELSE pair

\* Array.prototype.join
RECURSIVE Join(_, _)
Join(strs, sep) ==
    IF strs = <<>> THEN <<>>
    ELSE IF Len(strs) = 1 THEN strs[1]
    ELSE strs[1] \o sep \o Join(Tail(strs), sep)

\* `dm:${[selfId, friendId].sort().join(":")}`
getDmRoomId(selfId, friendId) ==
    <<"d", "m", ":">> \o Join(SortPair(<<selfId, friendId>>), <<":">>)

\* A caller computes the room of a direct conversation.
CallGetDmRoomId(selfId, friendId) ==
    /\ dmArgs' = <<selfId, friendId>>
    /\ dmRoom' = getDmRoomId(selfId, friendId)
    /\ UNCHANGED <<users, chanVars, msgVars, attVars, reactVars, readVars, clock,
                   connVars, tasks, emitted, roleVars>>

(***************************************************************************)
(* page.tsx: handleReactionUpdated                                          *)
(***************************************************************************)
\* The new reactions array of the message the payload names: "added" appends
\* { emoji, userId } unless an equal entry exists, "removed" filters the
\* equal entries out.
handleReactionUpdated(existing, payload) ==
    LET same(r) == r.emoji = payload.emoji /\ r.userId = payload.userId
    IN  IF payload.type = "added"
        THEN IF \E k \in 1..Len(existing) : same(existing[k]) THEN existing
             ELSE Append(existing,
                         [emoji |-> payload.emoji, userId |-> payload.userId])
        ELSE SelectSeq(existing, LAMBDA r : ~same(r))

\* The reactions array the client of connection sock holds for message
\* messageId after the first n emits: it starts from loaded, and
\* socket.on("reaction_updated", handleReactionUpdated) applies the events
\* delivered to sock in their order; the map leaves other messages alone.
RECURSIVE ClientReactions(_, _, _, _)
ClientReactions(sock, messageId, loaded, n) ==
    IF n = 0 THEN loaded
    ELSE LET before == ClientReactions(sock, messageId, loaded, n - 1)
             e == emitted[n]
         IN  IF /\ e.event = "reaction_updated" /\ sock \in e.recipients
                /\ e.messageId = messageId
             THEN handleReactionUpdated(before, e)
             ELSE before

(***************************************************************************)
(* auth.ts: GLOBAL_ROLE_RANK, hasGlobalRoleAtLeast                          *)
(***************************************************************************)
\* JavaScript values: a string, a number, null, undefined, or an object (a
\* function included).
Str(text) == [type |-> "string", text |-> text, num |-> 0]
Num(n)    == [type |-> "number", text |-> <<>>, num |-> n]
JsNull    == [type |-> "null", text |-> <<>>, num |-> 0]
Undefined == [type |-> "undefined", text |-> <<>>, num |-> 0]
JsObject  == [type |-> "object", text |-> <<>>, num |-> 0]

Guest      == <<"g", "u", "e", "s", "t">>
Member     == <<"m", "e", "m", "b", "e", "r">>
Moderator  == <<"m", "o", "d", "e", "r", "a", "t", "o", "r">>
Admin      == <<"a", "d", "m", "i", "n">>
Superadmin == <<"s", "u", "p", "e", "r", "a", "d", "m", "i", "n">>

\* The own properties of the object literal.
GLOBAL_ROLE_RANK ==
    (Guest :> 0) @@ (Member :> 1) @@ (Moderator :> 2) @@ (Admin :> 3)
    @@ (Superadmin :> 4)

\* Names every object literal inherits from Object.prototype.
ObjectPrototypeKeys ==
    {<<"c", "o", "n", "s", "t", "r", "u", "c", "t", "o", "r">>,
     <<"_", "_", "p", "r", "o", "t", "o", "_", "_">>,
     <<"t", "o", "S", "t", "r", "i", "n", "g">>,
     <<"v", "a", "l", "u", "e", "O", "f">>}

\* obj[key]: an own property, else one found on the prototype chain (a
\* function or an object), else undefined.
GetProperty(obj, key) ==
    IF key \in DOMAIN obj THEN Num(obj[key])
    ELSE IF key \in ObjectPrototypeKeys THEN JsObject
    ELSE Undefined

\* x ?? d
Coalesce(x, d) == IF x.type \in {"null", "undefined"} THEN d ELSE x

\* a >= b: both operands are converted to numbers; undefined and an object
\* convert to NaN, and a comparison with NaN is false.
GreaterEq(a, b) ==
    /\ a.type = "number" /\ b.type = "number"
    /\ a.num >= b.num

hasGlobalRoleAtLeast(role, required) ==
    LET normalized   == Lower(Coalesce(role, Str(Member)).text)
        currentRank  == Coalesce(GetProperty(GLOBAL_ROLE_RANK, normalized),
                                 GetProperty(GLOBAL_ROLE_RANK, Member))
        requiredRank == GetProperty(GLOBAL_ROLE_RANK, required)
    IN  GreaterEq(currentRank, requiredRank)

CallHasGlobalRoleAtLeast(role, required) ==
    /\ roleArgs' = <<role, required>>
    /\ roleOk' = hasGlobalRoleAtLeast(role, required)
    /\ UNCHANGED <<users, chanVars, msgVars, attVars, reactVars, readVars, clock,
                   connVars, tasks, emitted, dmArgs, dmRoom>>

(***************************************************************************)
(* Specifications                                                           *)
(***************************************************************************)
InitEmpty ==
    /\ users = DefaultUsers
    /\ conversations = EmptyMap
    /\ participants = {}
    /\ messages = EmptyMap
    /\ messageSeq = 0
    /\ attachments = EmptyMap
    /\ attachmentSeq = 0
    /\ reactions = {}
    /\ reactionSeq = 0
    /\ reads = {}
    /\ readSeq = 0
    /\ clock = 1
    /\ socketData = HandshakeData(DefaultUsers)
    /\ connState = [s \in Sockets |-> "open"]
    /\ rooms = [s \in Sockets |-> {s}]
    /\ tasks = <<>>
    /\ emitted = <<>>
    /\ dmArgs = <<>>
    /\ dmRoom = <<>>
    /\ roleArgs = <<>>
    /\ roleOk = FALSE

\* Attachment binding: uploads and chat_message handlers.
MaxAttachTasks == 2
MaxAttachments == 2
AttachSockets  == {"s1", "s2"}
AttachUploaders == {"u1"}
\* A client names no attachment, or attachments POST /uploads has returned:
\* one of them, or all of them together with an id no attachment has.
AttachIdSets   ==
    {{}} \cup {{a} : a \in DOMAIN attachments}
         \cup {DOMAIN attachments \cup {MaxAttachments + 1}}

NextAttach ==
    \/ \E u \in AttachUploaders, n \in 1..MaxAttachments :
          /\ attachmentSeq + n <= MaxAttachments
          /\ UploadFiles(u, n)
    \/ \E s \in AttachSockets, ids \in AttachIdSets :
          /\ Len(tasks) < MaxAttachTasks
          /\ ChatMessage(s, "general", Hi, NULL, ids)
    \/ \E i \in TaskIds : DbSaveMessage(i)
    \/ \E i \in TaskIds : ContinueSaved(i)
    \/ \E i \in TaskIds : DbAssignAttachments(i)
    \/ \E i \in TaskIds : ContinueAssigned(i)

SpecAttach == InitEmpty /\ [][NextAttach]_vars

(***************************************************************************)
(* Attachment binding (SpecAttach)                                          *)
(***************************************************************************)
IsChat(i)    == tasks[i].kind = "chat_message"
Actor(i)     == socketData[tasks[i].sock].id
\* The bind of task i has been executed.
Bound(i)     == IsChat(i) /\ tasks[i].attachmentIds # {}
                /\ tasks[i].pc \in {"assigned", "done"} /\ tasks[i].saved # NULL
\* Task i executes its bind in this step.
BindStep(i)  == IsChat(i) /\ tasks[i].pc = "assign" /\ tasks'[i].pc = "assigned"

\* The completed binds by the uploader of a that named a.
Namers(a) ==
    {i \in TaskIds :
        /\ Bound(i)
        /\ a \in tasks[i].attachmentIds
        /\ Actor(i) = attachments[a].uploader_user_id}

\* Those of them that ran when a was already staged (a was stored no later
\* than the message they target, which is stored before its bind runs).
Contenders(a) ==
    {i \in Namers(a) :
        attachments[a].created_at <= messages[tasks[i].saved].created_at}

Winners(a) == {i \in TaskIds : Bound(i) /\ a \in tasks[i].rows}

\* C2: of the binds by the uploader that compete for one staged attachment,
\* each for its own message, exactly one returns the attachment, every other
\* returns no row for it, and the attachment is bound to the winner's message
\* and to no other.
C2_ExactlyOneBindWins ==
    \A a \in DOMAIN attachments :
        /\ \A i, j \in TaskIds :
              Bound(i) /\ Bound(j) /\ i # j => tasks[i].saved # tasks[j].saved
        /\ Winners(a) \subseteq Namers(a)
        /\ Contenders(a) # {} =>
              \E i \in Namers(a) :
                  /\ Winners(a) = {i}
                  /\ attachments[a].message_id = tasks[i].saved
                  /\ \A j \in Namers(a) \ {i} : a \notin tasks[j].rows
        /\ Cardinality(Namers(a)) = 2 /\ Contenders(a) = Namers(a) =>
              \E i, j \in Contenders(a) :
                  /\ i # j
                  /\ a \in tasks[i].rows /\ a \notin tasks[j].rows
                  /\ attachments[a].message_id = tasks[i].saved

\* Two binds by the uploader have competed for attachment a: one won.
C2_Witness ==
    \E a \in DOMAIN attachments : \E i, j \in Contenders(a) :
        /\ i # j
        /\ a \in tasks[i].rows
        /\ tasks[j].rows = {}
        /\ attachments[a].message_id = tasks[i].saved

\* C3: an attachment row changes only by one bind of its uploader that takes
\* message_id from NULL to that bind's message; once assigned the row never
\* changes again, and a bind by another actor changes nothing.
C3_AssignedAtMostOnce ==
    [][\A a \in DOMAIN attachments :
          /\ a \in DOMAIN attachments'
          /\ attachments[a].message_id # NULL => attachments'[a] = attachments[a]
          /\ attachments'[a] # attachments[a] =>
                \E i \in TaskIds :
                    /\ BindStep(i)
                    /\ a \in tasks[i].attachmentIds
                    /\ Actor(i) = attachments[a].uploader_user_id
                    /\ tasks[i].saved # NULL
                    /\ attachments'[a] =
                          [attachments[a] EXCEPT !.message_id = tasks[i].saved]
          /\ \A i \in TaskIds :
                BindStep(i) /\ Actor(i) # attachments[a].uploader_user_id
                    => attachments'[a] = attachments[a]]_vars

\* Attachment a is assigned; a bind by another actor than the uploader has
\* named a and the staged, pending attachment b: it got no row, a kept its
\* message and b is still pending.
C3_Witness ==
    \E a, b \in DOMAIN attachments : \E i, j \in TaskIds :
        /\ i # j /\ Bound(i) /\ Bound(j)
        /\ attachments[a].message_id = tasks[i].saved
        /\ {a, b} \subseteq tasks[j].attachmentIds
        /\ tasks[j].rows = {}
        /\ Actor(j) # attachments[b].uploader_user_id
        /\ attachments[b].created_at <= messages[tasks[j].saved].created_at
        /\ attachments[b].message_id = NULL

ChatEventsFor(m) ==
    {n \in 1..Len(emitted) :
        emitted[n].event = "chat_message" /\ emitted[n].messageId = m}

\* C4: a bind returns exactly the named attachments that its actor uploaded
\* and that were pending when the UPDATE ran, without error whatever ids are
\* named; the message stays stored and its one chat_message broadcast carries
\* exactly the returned rows, which are the attachments bound to the message.
C4_BindReturnsMatching ==
    /\ [][\A i \in TaskIds : BindStep(i) =>
            /\ tasks'[i].rows =
                  {a \in tasks[i].attachmentIds \cap DOMAIN attachments :
                      /\ attachments[a].uploader_user_id = Actor(i)
                      /\ attachments[a].message_id = NULL}
            /\ ~tasks'[i].err]_vars
    /\ [](\A i \in TaskIds :
            IsChat(i) /\ tasks[i].pc = "done" /\ tasks[i].attachmentIds # {}
              /\ tasks[i].saved # NULL =>
                /\ ~tasks[i].err
                /\ tasks[i].saved \in DOMAIN messages
                /\ \E n \in 1..Len(emitted) :
                      /\ ChatEventsFor(tasks[i].saved) = {n}
                      /\ emitted[n].to = ToRoom(tasks[i].room)
                      /\ emitted[n].attachments = tasks[i].rows
                      /\ emitted[n].attachments =
                            {a \in DOMAIN attachments :
                                attachments[a].message_id = tasks[i].saved})

\* A chat_message naming three attachment ids, of which its sender could bind
\* one, has been stored and broadcast with that one attachment.
C4_Witness ==
    \E i \in TaskIds : \E n \in ChatEventsFor(tasks[i].saved) :
        /\ IsChat(i) /\ tasks[i].pc = "done"
        /\ Cardinality(tasks[i].attachmentIds) = 3
        /\ Cardinality(tasks[i].rows) = 1
        /\ emitted[n].attachments = tasks[i].rows
        /\ tasks[i].saved \in DOMAIN messages

\* C38: in every state an attachment whose message_id is set is bound to a
\* stored message, and the author of that message is the attachment's
\* uploader.
C38_BoundToOwnMessage ==
    \A a \in DOMAIN attachments :
        attachments[a].message_id # NULL =>
            /\ attachments[a].message_id \in DOMAIN messages
            /\ messages[attachments[a].message_id].user_id
                  = attachments[a].uploader_user_id

\* u2's message named attachment 1 of u1 and bound nothing; u1's message,
\* stored after it, named it too and attachment 1 is bound to that message.
C38_Witness ==
    /\ 1 \in DOMAIN attachments /\ attachments[1].uploader_user_id = "u1"
    /\ DOMAIN messages = {1, 2}
    /\ messages[1].user_id = "u2" /\ messages[2].user_id = "u1"
    /\ attachments[1].message_id = 2
    /\ \A i \in TaskIds : tasks[i].pc = "done" /\ 1 \in tasks[i].attachmentIds

(***************************************************************************)
(* Reaction ledger (SpecReact)                                              *)
(***************************************************************************)
Plus == <<"+">>

\* The row saveMessage inserted for message id, sent by userId at time id;
\* deleted says whether softDeleteMessageForUser has since hidden it.
MessageRow(names, id, room, userId, message, deleted) ==
    [id |-> id, room |-> room, username |-> names[userId].display_name,
     message |-> message, created_at |-> id, user_id |-> userId,
     reply_to_message_id |-> NULL, edited_at |-> NULL,
     deleted_at |-> IF deleted THEN id + 1 ELSE NULL,
     deleted_by |-> IF deleted THEN userId ELSE ""]

\* The server after the registered users named by names have sent (and
\* possibly deleted) the messages of store, one chat_message at a time, and
\* every handler has returned; tasks and emitted record what happens from
\* there on.
InitWith(names, store, convs, parts) ==
    /\ users = names
    /\ conversations = convs
    /\ participants = parts
    /\ messages = store
    /\ messageSeq = Cardinality(DOMAIN store)
    /\ attachments = EmptyMap
    /\ attachmentSeq = 0
    /\ reactions = {}
    /\ reactionSeq = 0
    /\ reads = {}
    /\ readSeq = 0
    /\ clock = Cardinality(DOMAIN store) + 2
    /\ socketData = HandshakeData(names)
    /\ connState = [s \in Sockets |-> "open"]
    /\ rooms = [s \in Sockets |-> {s}]
    /\ tasks = <<>>
    /\ emitted = <<>>
    /\ dmArgs = <<>>
    /\ dmRoom = <<>>
    /\ roleArgs = <<>>
    /\ roleOk = FALSE

InitStore(names, store) == InitWith(names, store, EmptyMap, {})

\* u2 has sent one message to general.
InitOneMessage ==
    InitStore(DefaultUsers,
              1 :> MessageRow(DefaultUsers, 1, "general", "u2", Hi, FALSE))

MaxReactTasks == 3
ReactSockets  == {"s1", "s2"}
ReactEmojis   == {Plus, <<" ", "+", " ">>, <<" ">>}
\* Message 1 is stored, message 2 is not.
ReactMessageIds == {1, 2}

NextReact ==
    \/ \E s \in ReactSockets, m \in ReactMessageIds, e \in ReactEmojis :
          /\ Len(tasks) < MaxReactTasks
          /\ AddReaction(s, m, e, "general")
    \/ \E s \in ReactSockets, m \in ReactMessageIds, e \in ReactEmojis :
          /\ Len(tasks) < MaxReactTasks
          /\ RemoveReaction(s, m, e, "general")
    \/ \E i \in TaskIds : DbAddReaction(i)
    \/ \E i \in TaskIds : DbRemoveReaction(i)
    \/ \E i \in TaskIds : ContinueReaction(i)

SpecReact == InitOneMessage /\ [][NextReact]_vars

IsReaction(i) == tasks[i].kind \in {"add_reaction", "remove_reaction"}
AddStep(i)    == tasks[i].pc = "addReaction" /\ tasks'[i].pc # "addReaction"
RemoveStep(i) == tasks[i].pc = "removeReaction" /\ tasks'[i].pc # "removeReaction"

\* The rows of the ledger for message m, user u and emoji e.
RowsFor(tbl, m, u, e) ==
    {r \in tbl : r.message_id = m /\ r.user_id = u /\ r.emoji = e}

\* The statement of task i has run without error.
Ran(i) == IsReaction(i) /\ tasks[i].pc \in {"added", "removed", "done"}
          /\ tasks[i].emoji # <<>> /\ ~tasks[i].err

\* C5: add(m,u,e) on a stored message leaves one row for (m,u,e) and the
\* other rows as they were; run again with the row present it leaves the
\* ledger as it is; remove(m,u,e) with no such row leaves the ledger as it is
\* and raises no error.
C5_ReactionIdempotent ==
    [][\A i \in TaskIds :
          LET m == tasks[i].messageId
              u == Actor(i)
              e == tasks[i].emoji
          IN  /\ AddStep(i) /\ m \in DOMAIN messages =>
                    /\ Cardinality(RowsFor(reactions', m, u, e)) = 1
                    /\ reactions' \ RowsFor(reactions', m, u, e) =
                          reactions \ RowsFor(reactions, m, u, e)
              /\ AddStep(i) /\ RowsFor(reactions, m, u, e) # {} =>
                    reactions' = reactions
              /\ RemoveStep(i) /\ RowsFor(reactions, m, u, e) = {} =>
                    reactions' = reactions /\ ~tasks'[i].err]_vars

\* The same add has run twice and left one row, and a remove of a reaction
\* that is not in the ledger has run.
C5_Witness ==
    \E i, j, k \in TaskIds :
        /\ i # j /\ Ran(i) /\ Ran(j) /\ Ran(k)
        /\ tasks[i].kind = "add_reaction" /\ tasks[j].kind = "add_reaction"
        /\ tasks[k].kind = "remove_reaction"
        /\ tasks[i].sock = tasks[j].sock /\ tasks[i].emoji = tasks[j].emoji
        /\ tasks[i].messageId = tasks[j].messageId
        /\ Cardinality(RowsFor(reactions, tasks[i].messageId, Actor(i),
                               tasks[i].emoji)) = 1
        /\ Actor(k) # Actor(i)
        /\ Cardinality(reactions) = 1

\* C6: whatever the interleaving of add_reaction and remove_reaction
\* handlers, the ledger holds at most one row per (message, user, emoji) and
\* no statement on a stored message fails.
C6_OneRowPerTriple ==
    /\ \A r1, r2 \in reactions :
          /\ r1.message_id = r2.message_id
          /\ r1.user_id = r2.user_id
          /\ r1.emoji = r2.emoji
          => r1 = r2
    /\ \A r \in reactions : r.message_id \in DOMAIN messages
    /\ \A i \in TaskIds :
          IsReaction(i) /\ tasks[i].messageId \in DOMAIN messages => ~tasks[i].err

\* Two adds and a remove of one (message, user, emoji) were in flight
\* together; all three have run and one row is left.
C6_Witness ==
    \E i, j, k \in TaskIds :
        /\ i < j /\ Ran(i) /\ Ran(j) /\ Ran(k)
        /\ tasks[i].kind = "add_reaction" /\ tasks[j].kind = "add_reaction"
        /\ tasks[k].kind = "remove_reaction"
        /\ tasks[i].sock = tasks[j].sock /\ tasks[j].sock = tasks[k].sock
        /\ tasks[i].emoji = tasks[j].emoji /\ tasks[j].emoji = tasks[k].emoji
        /\ tasks[i].messageId = tasks[j].messageId
        /\ tasks[j].messageId = tasks[k].messageId
        /\ tasks[i].pc = "added" /\ tasks[j].pc = "added" /\ tasks[k].pc = "removed"
        /\ Cardinality(RowsFor(reactions, tasks[i].messageId, Actor(i),
                               tasks[i].emoji)) = 1

(***************************************************************************)
(* Read watermark (SpecRead)                                                *)
(***************************************************************************)
\* u2 has sent messages 1 and 2 to general.
InitTwoMessages ==
    InitStore(DefaultUsers,
              [m \in 1..2 |-> MessageRow(DefaultUsers, m, "general", "u2", Hi, FALSE)])

MaxReadTasks == 2
ReadRooms    == {"general", "support"}
\* NULL is a frame without messageId; message 3 is stored once u2 has sent it.
ReadMessageIds == {NULL, 1, 2, 3}

NextRead ==
    \/ \E m \in ReadMessageIds, rm \in ReadRooms :
          /\ Len(tasks) < MaxReadTasks
          /\ MarkRead("s1", rm, m)
    \/ /\ Len(tasks) < MaxReadTasks
       /\ messageSeq < 3
       /\ ChatMessage("s2", "general", Hi, NULL, {})
    \/ \E i \in TaskIds : DbSaveMessage(i)
    \/ \E i \in TaskIds : ContinueSaved(i)
    \/ \E i \in TaskIds : DbUpsertReadReceipt(i)
    \/ \E i \in TaskIds : ContinueUpserted(i)
    \/ \E i \in TaskIds : DbUnreadCounts(i)
    \/ \E i \in TaskIds : DbMentionUnreadCounts(i)
    \/ \E i \in TaskIds : ContinueCounted(i)

SpecRead == InitTwoMessages /\ [][NextRead]_vars

\* The upsert of mark_read task i has run (a dropped frame issues none).
UpsertRan(i) ==
    /\ tasks[i].kind = "mark_read"
    /\ tasks[i].pc \in {"upserted", "counts", "done"}
    /\ tasks[i].err \/ tasks[i].lastRead # NULL

\* The messageIds the completed mark_read calls passed for (rm, u).
Passed(rm, u) ==
    {tasks[i].messageId : i \in {k \in TaskIds : /\ UpsertRan(k)
                                                  /\ tasks[k].room = rm
                                                  /\ Actor(k) = u}}

\* Those among them that named a stored message when the call ran: the
\* others were refused by the reference to messages(id).
PassedStored(rm, u) ==
    {tasks[i].messageId : i \in {k \in TaskIds : /\ UpsertRan(k)
                                                  /\ ~tasks[k].err
                                                  /\ tasks[k].room = rm
                                                  /\ Actor(k) = u}}

Watermarks(tbl, rm, u) ==
    {r.last_read_message_id : r \in {x \in tbl : x.room = rm /\ x.user_id = u}}

NoUpsertPending == \A i \in TaskIds : tasks[i].pc # "upsert"

\* C1 as stated: the watermark of (room, user) never decreases, and once
\* every call has completed it is the maximum messageId ever passed.
C1_WatermarkIsMaxPassed ==
    NoUpsertPending =>
        \A rm \in ReadRooms, u \in UserIds :
            Passed(rm, u) # {} => Watermarks(reads, rm, u) = {Max(Passed(rm, u))}

\* C1 as amended: the watermark of (room, user) never decreases from one
\* state to the next, and it is the maximum messageId passed by the completed
\* calls that named a stored message (no row while there is none).
C1_WatermarkMonotone ==
    /\ [][\A rm \in ReadRooms, u \in UserIds :
             \A w \in Watermarks(reads, rm, u) :
                 \E w2 \in Watermarks(reads', rm, u) : w2 >= w]_vars
    /\ [](\A rm \in ReadRooms, u \in UserIds :
             Watermarks(reads, rm, u) =
                 IF PassedStored(rm, u) = {} THEN {}
                 ELSE {Max(PassedStored(rm, u))})

\* C39: in every state the last_read_message_id of every watermark row is
\* the id of a stored message whose room is the room of that row.
C39_WatermarkInRoom ==
    \A r \in reads :
        /\ r.last_read_message_id \in DOMAIN messages
        /\ messages[r.last_read_message_id].room = r.room

\* mark(2) then mark(1) for one (room, user): both have run and the
\* watermark is 2.
C1_Witness ==
    \E i, j \in TaskIds :
        /\ i < j /\ UpsertRan(i) /\ UpsertRan(j)
        /\ tasks[i].room = tasks[j].room
        /\ tasks[i].messageId = 2 /\ tasks[j].messageId = 1
        /\ tasks[i].lastRead = 2 /\ tasks[j].lastRead = 2
        /\ Watermarks(reads, tasks[i].room, Actor(i)) = {2}

(***************************************************************************)
(* Unread counts (SpecUnread)                                               *)
(***************************************************************************)
AtBob == <<"@">> \o Bob

MaxUnreadMessages == 2
MaxUnreadTasks    == 2
UnreadRooms   == {"general", "support"}
UnreadAuthors == {"u1", "u2"}
UnreadSockets == {"s1", "s2"}

\* The stores of up to MaxUnreadMessages messages: each in one of the rooms,
\* by one of the authors, deleted by its author or not.  u1 writes "@Bob",
\* u2 writes "hi".
UnreadStores ==
    UNION {{[m \in 1..n |->
               MessageRow(DefaultUsers, m, f[m][1], f[m][2],
                          IF f[m][2] = "u1" THEN AtBob ELSE Hi, f[m][3])] :
              f \in [1..n -> UnreadRooms \X UnreadAuthors \X BOOLEAN]} :
           n \in 1..MaxUnreadMessages}

InitUnread == \E store \in UnreadStores : InitStore(DefaultUsers, store)

NextUnread ==
    \/ \E s \in UnreadSockets, rm \in UnreadRooms, m \in 1..MaxUnreadMessages :
          /\ Len(tasks) < MaxUnreadTasks
          /\ MarkRead(s, rm, m)
    \/ \E i \in TaskIds : DbUpsertReadReceipt(i)
    \/ \E i \in TaskIds : ContinueUpserted(i)
    \/ \E i \in TaskIds : DbUnreadCounts(i)
    \/ \E i \in TaskIds : DbMentionUnreadCounts(i)
    \/ \E i \in TaskIds : ContinueCounted(i)

SpecUnread == InitUnread /\ [][NextUnread]_vars

\* The messages of room rm that count as unread for user u given the
\* watermark rows of tbl: id above u's watermark for rm (every message when u
\* has none), not written by u, not soft-deleted.
UnreadOf(tbl, u, rm) ==
    {m \in DOMAIN messages :
        /\ messages[m].room = rm
        /\ \A w \in Watermarks(tbl, rm, u) : m > w
        /\ messages[m].user_id # u
        /\ messages[m].deleted_at = NULL}

UnreadStep(i) == /\ tasks[i].pc = "counts"
                 /\ ~tasks[i].gotUnread /\ tasks'[i].gotUnread

\* C7: for every user X and room R the unread query maps R to the number of
\* messages of R with id above X's watermark for R (all of them when X has
\* none), not written by X and not soft-deleted; a mark_read handler's
\* unread query answers with that map.
C7_UnreadCount ==
    /\ [](\A u \in UserIds, rm \in UnreadRooms :
             CountFor(ByRoom(getUnreadCountsForUser(u)), rm) =
                 Cardinality(UnreadOf(reads, u, rm)))
    /\ [][\A i \in TaskIds :
             UnreadStep(i) =>
                 \A rm \in UnreadRooms :
                     CountFor(tasks'[i].unread, rm) =
                         Cardinality(UnreadOf(reads, Actor(i), rm))]_vars

\* Messages 1 and 2 of a room are by another user and not deleted; u1 holds
\* watermark 1 there and the unread query answered 1 for that room, and
\* counted a room where u1 has no watermark.
C7_Witness ==
    \E i \in TaskIds, rm, other \in UnreadRooms :
        /\ tasks[i].kind = "mark_read" /\ tasks[i].gotUnread
        /\ Actor(i) = "u1" /\ tasks[i].room = rm
        /\ Watermarks(reads, rm, "u1") = {1}
        /\ UnreadOf(reads, "u1", rm) = {2}
        /\ CountFor(tasks[i].unread, rm) = 1
        /\ other # rm /\ Watermarks(reads, other, "u1") = {}

UpsertStep(i) == tasks[i].pc = "upsert" /\ tasks'[i].pc # "upsert"

IdsOf(rm) == {m \in DOMAIN messages : messages[m].room = rm}

\* mark_read task i names the greatest message id of its room.
MarksGreatest(i) ==
    /\ IdsOf(tasks[i].room) # {}
    /\ tasks[i].messageId = Max(IdsOf(tasks[i].room))

\* C8: when the upsert of markRead(R, X, m) runs with m the greatest message
\* id of R, X's unread count for R is 0 afterwards, and for every other user
\* the unread and mention-unread counts for R are what they were before.
C8_MarkReadFrame ==
    [][\A i \in TaskIds :
          UpsertStep(i) /\ MarksGreatest(i) =>
              LET rm == tasks[i].room
              IN  /\ CountFor(ByRoom(getUnreadCountsForUser(Actor(i))), rm)' = 0
                  /\ \A u \in UserIds \ {Actor(i)} :
                        /\ CountFor(ByRoom(getUnreadCountsForUser(u)), rm)' =
                              CountFor(ByRoom(getUnreadCountsForUser(u)), rm)
                        /\ CountFor(ByRoom(getMentionUnreadCountsForUser(u)), rm)' =
                              CountFor(ByRoom(getMentionUnreadCountsForUser(u)), rm)]_vars

\* u1 had unread messages in a room and marked its greatest message: u1's
\* count there is 0 while u2, who holds an older watermark, still has an
\* unread message and u3 an unread mention in that room.
C8_Witness ==
    \E i, j \in TaskIds :
        /\ i # j
        /\ UpsertRan(i) /\ ~tasks[i].err /\ Actor(i) = "u1"
        /\ UpsertRan(j) /\ ~tasks[j].err /\ Actor(j) = "u2"
        /\ tasks[i].room = tasks[j].room
        /\ MarksGreatest(i)
        /\ \E m \in IdsOf(tasks[i].room) :
              messages[m].user_id = "u2" /\ messages[m].deleted_at = NULL
        /\ CountFor(ByRoom(getUnreadCountsForUser("u1")), tasks[i].room) = 0
        /\ CountFor(ByRoom(getUnreadCountsForUser("u2")), tasks[i].room) = 1
        /\ CountFor(ByRoom(getMentionUnreadCountsForUser("u3")), tasks[i].room) = 1

(***************************************************************************)
(* Mention counts (SpecMention)                                             *)
(***************************************************************************)
HelloAtAlice == <<"h", "i", " ", "@">> \o Alice

\* Display names u1 may have registered with.
MentionNames ==
    {Alice,
     <<"a", "l", "i", "c", "e">>,
     <<"A", "l", "i">>,
     <<"A", "_", "i", "c", "e">>,
     <<"l", "i", "c">>}

MaxMentionTasks == 1
MentionRooms    == {"general", "support"}
MentionSockets  == {"s1", "s2"}

NamesWith(name) == [DefaultUsers EXCEPT !["u1"].display_name = name]

\* u1 registered under one of the names; u2 has sent "hi" and then
\* "hi @Alice" to general.
InitMention ==
    \E name \in MentionNames :
        InitStore(NamesWith(name),
                  [m \in 1..2 |->
                      MessageRow(NamesWith(name), m, "general", "u2",
                                 IF m = 1 THEN Hi ELSE HelloAtAlice, FALSE)])

NextMention ==
    \/ \E s \in MentionSockets, rm \in MentionRooms, m \in 1..2 :
          /\ Len(tasks) < MaxMentionTasks
          /\ MarkRead(s, rm, m)
    \/ \E i \in TaskIds : DbUpsertReadReceipt(i)
    \/ \E i \in TaskIds : ContinueUpserted(i)
    \/ \E i \in TaskIds : DbUnreadCounts(i)
    \/ \E i \in TaskIds : DbMentionUnreadCounts(i)
    \/ \E i \in TaskIds : ContinueCounted(i)

SpecMention == InitMention /\ [][NextMention]_vars

\* body holds the token @name: the characters of name right after an "@",
\* ending at the end of the body or at a space.
ContainsToken(body, name) ==
    \E k \in 1..Len(body) :
        /\ k + Len(name) <= Len(body)
        /\ SubSeq(body, k, k + Len(name)) = <<"@">> \o name
        /\ k + Len(name) = Len(body) \/ body[k + Len(name) + 1] = " "

MentionStep(i) == /\ tasks[i].pc = "counts"
                  /\ ~tasks[i].gotMention /\ tasks'[i].gotMention

\* C9: the mention query of a mark_read handler counts, for user U and each
\* room, the unread messages whose body holds the token @<display name of U>
\* for U's exact display name, and no other message.
C9_MentionExactName ==
    [][\A i \in TaskIds :
          MentionStep(i) =>
              \A rm \in MentionRooms :
                  CountFor(tasks'[i].mention, rm) =
                      Cardinality({m \in UnreadOf(reads, Actor(i), rm) :
                                      ContainsToken(messages[m].message,
                                                    users[Actor(i)].display_name)})]_vars

(***************************************************************************)
(* Channel membership (SpecMember)                                          *)
(***************************************************************************)
\* The row createChannelForUser inserts into conversations.
ChannelRow(id, userId) ==
    [id |-> id, type |-> "channel", title |-> <<"c">>, created_by |-> userId]

Participant(channelId, userId, role) ==
    [conversation_id |-> channelId, user_id |-> userId, role |-> role]

\* u1 has created channel c1 and invited u2; u3 is not in it.
InitMember ==
    InitWith(DefaultUsers, EmptyMap,
             "c1" :> ChannelRow("c1", "u1"),
             {Participant("c1", "u1", "owner"), Participant("c1", "u2", "member")})

MaxMemberTasks == 2
\* u9 is a well-formed id of no user.
InviteTargets == UserIds \cup {"u9", NotAUuid}
InviteNames   == {<<"b", "o", "b", " ">>, Alice, <<>>}
InviteActors  == {"u1", "u2"}
RoleChoices   == {"member", "moderator", "owner"}

NextMember ==
    \/ \E u, m \in UserIds :
          Len(tasks) < MaxMemberTasks /\ RemoveMember(u, "c1", m)
    \/ \E u \in UserIds :
          Len(tasks) < MaxMemberTasks /\ LeaveChannel(u, "c1")
    \/ \E u \in InviteActors, m \in InviteTargets, n \in InviteNames :
          Len(tasks) < MaxMemberTasks /\ Invite(u, "c1", m, n)
    \/ \E u \in InviteActors, m \in UserIds, r \in RoleChoices :
          Len(tasks) < MaxMemberTasks /\ ChangeRole(u, "c1", m, r)
    \/ \E i \in TaskIds : DbRemoveCallerRole(i)
    \/ \E i \in TaskIds : DbRemoveTargetRole(i)
    \/ \E i \in TaskIds : DbRemoveUser(i)
    \/ \E i \in TaskIds : DbLeaveRole(i)
    \/ \E i \in TaskIds : DbLeaveRemove(i)
    \/ \E i \in TaskIds : DbInviteCallerRole(i)
    \/ \E i \in TaskIds : DbInviteTargetUser(i)
    \/ \E i \in TaskIds : DbInviteAdd(i)
    \/ \E i \in TaskIds : DbRoleCallerRole(i)
    \/ \E i \in TaskIds : DbRoleTargetRole(i)
    \/ \E i \in TaskIds : DbUpdateRole(i)

SpecMember == InitMember /\ [][NextMember]_vars

\* Task i takes a step / arrives in this step.
\* roleOf(channel, identity) in the current state.
RoleOf(channelId, userId) ==
    getChannelParticipantRole(participants, channelId, userId)

\* Task i, of the given kind, arrives or takes a step in this step.
Acts(i, kind) ==
    /\ i \in DOMAIN tasks'
    /\ tasks'[i].kind = kind
    /\ i \notin DOMAIN tasks \/ tasks'[i] # tasks[i]

\* The pc task i leaves in this step ("" when it arrives).
From(i) == IF i \in DOMAIN tasks THEN tasks[i].pc ELSE ""

Done(i, kind) == tasks[i].kind = kind /\ tasks[i].pc = "done"

\* C11 as stated: removeMember by an actor whose role in the channel is not
\* owner ends with Forbidden (403) and changes no membership row or role.
C11_NonOwnerForbidden ==
    /\ [](\A i \in TaskIds :
             /\ Done(i, "remove_member")
             /\ RoleOf(tasks[i].channelId, tasks[i].userId) # "owner"
             => tasks[i].status = 403)
    /\ [][\A i \in DOMAIN tasks' :
             /\ Acts(i, "remove_member")
             /\ RoleOf(tasks'[i].channelId, tasks'[i].userId) # "owner"
             => UNCHANGED chanVars]_vars

\* C11 as amended: removeMember by an actor whose role in the channel is not
\* owner changes no membership row or role and ends with Forbidden (403),
\* except that it ends with 400 when the target is the actor.
C11_NonOwnerRefused ==
    /\ [](\A i \in TaskIds :
             /\ Done(i, "remove_member")
             /\ RoleOf(tasks[i].channelId, tasks[i].userId) # "owner"
             => tasks[i].status =
                   IF tasks[i].memberId = tasks[i].userId THEN 400 ELSE 403)
    /\ [][\A i \in DOMAIN tasks' :
             /\ Acts(i, "remove_member")
             /\ RoleOf(tasks'[i].channelId, tasks'[i].userId) # "owner"
             => UNCHANGED chanVars]_vars

\* A moderator asked to remove another member and was refused with 403; the
\* member is still there.
C11_Witness ==
    \E i \in TaskIds :
        /\ Done(i, "remove_member")
        /\ tasks[i].callerRole = "moderator"
        /\ RoleOf(tasks[i].channelId, tasks[i].userId) = "moderator"
        /\ tasks[i].status = 403
        /\ RoleOf(tasks[i].channelId, tasks[i].memberId) = "owner"

RowsOf(channelId, userId) ==
    {p \in participants : p.conversation_id = channelId /\ p.user_id = userId}

\* C12: leave by the owner fails (400) and changes no membership; leave by a
\* moderator or member goes on to delete, and the delete removes that
\* identity's membership of the channel and no other row.
C12_LeaveOwnerFails ==
    [][\A i \in DOMAIN tasks' :
          Acts(i, "leave") =>
              LET c == tasks'[i].channelId
                  u == tasks'[i].userId
              IN  /\ From(i) # "leaveRemove" => UNCHANGED chanVars
                  /\ From(i) = "leaveRole" /\ RoleOf(c, u) = "owner" =>
                        tasks'[i].pc = "done" /\ tasks'[i].status = 400
                  /\ From(i) = "leaveRole"
                     /\ RoleOf(c, u) \in {"member", "moderator"} =>
                        tasks'[i].pc = "leaveRemove"
                  /\ From(i) = "leaveRemove" =>
                        /\ RoleOf(c, u) # "owner"
                        /\ participants' = participants \ RowsOf(c, u)
                        /\ conversations' = conversations
                        /\ tasks'[i].status = 204]_vars

\* The owner's leave was refused and the owner is still the owner; a
\* member's leave removed the member.
C12_Witness ==
    \E i, j \in TaskIds :
        /\ Done(i, "leave") /\ Done(j, "leave")
        /\ tasks[i].status = 400 /\ tasks[i].callerRole = "owner"
        /\ RoleOf(tasks[i].channelId, tasks[i].userId) = "owner"
        /\ tasks[j].status = 204 /\ tasks[j].callerRole = "member"
        /\ RoleOf(tasks[j].channelId, tasks[j].userId) = NoRole
        /\ Cardinality(participants) = 1

\* The target of invite task t is a user and the display name given is that
\* user's (in any case, surrounding blanks aside).
NamesUser(t) ==
    /\ t.memberId \in DOMAIN users
    /\ Lower(users[t.memberId].display_name) = Lower(Trim(t.displayName))

C15_OwnerRemoves ==
    [][\A i \in DOMAIN tasks' :
          /\ Acts(i, "remove_member")
          /\ RoleOf(tasks'[i].channelId, tasks'[i].userId) = "owner"
          => LET c == tasks'[i].channelId
                 m == tasks'[i].memberId
             IN  /\ From(i) # "removeUser" => UNCHANGED chanVars
                 /\ From(i) = "" /\ RoleOf(c, m) = "owner" =>
                       tasks'[i].pc = "done" /\ tasks'[i].status = 400
                 /\ From(i) = "removeTargetRole" /\ RoleOf(c, m) = NoRole =>
                       tasks'[i].pc = "done" /\ tasks'[i].status = 404
                 /\ From(i) = "removeTargetRole"
                    /\ RoleOf(c, m) \in {"member", "moderator"} =>
                       tasks'[i].pc = "removeUser"
                 /\ From(i) = "removeUser" =>
                       /\ participants' = participants \ RowsOf(c, m)
                       /\ conversations' = conversations
                       /\ tasks'[i].status = 204]_vars

\* The owner removed the member u2 (204) and was told 404 for u3, who has no
\* membership; only the owner's membership is left.
C15_Witness ==
    \E i, j \in TaskIds :
        /\ Done(i, "remove_member") /\ Done(j, "remove_member")
        /\ tasks[i].callerRole = "owner" /\ tasks[j].callerRole = "owner"
        /\ tasks[i].memberId = "u2" /\ tasks[i].status = 204
        /\ tasks[j].memberId = "u3" /\ tasks[j].status = 404
        /\ participants = {Participant("c1", "u1", "owner")}

\* C16: a changeRole request changes a membership row only in its update,
\* which is reached only when the actor is the channel owner, the target is
\* another identity and the new role is member or moderator; the update sets
\* the role of the target's row, which is not an owner's, and changes no
\* other row; no step of a changeRole request adds or removes an owner, and a
\* request that does not meet these conditions does not succeed.
C16_ChangeRoleGuard ==
    /\ [](\A i \in TaskIds :
             Done(i, "change_role") /\ tasks[i].status = 204 =>
                 /\ RoleOf(tasks[i].channelId, tasks[i].userId) = "owner"
                 /\ tasks[i].memberId # tasks[i].userId
                 /\ tasks[i].role \in {"member", "moderator"})
    /\ [][\A i \in DOMAIN tasks' :
             Acts(i, "change_role") =>
                 LET c == tasks'[i].channelId
                     m == tasks'[i].memberId
                 IN  /\ \A u \in UserIds :
                           getChannelParticipantRole(participants', c, u) = "owner"
                              <=> RoleOf(c, u) = "owner"
                     /\ From(i) # "roleUpdate" => UNCHANGED chanVars
                     /\ From(i) = "roleUpdate" =>
                           /\ RoleOf(c, tasks'[i].userId) = "owner"
                           /\ m # tasks'[i].userId
                           /\ RoleOf(c, m) # "owner"
                           /\ tasks'[i].role \in {"member", "moderator"}
                           /\ conversations' = conversations
                           /\ participants' =
                                 (participants \ RowsOf(c, m))
                                 \cup {Participant(c, m, tasks'[i].role) :
                                         p \in RowsOf(c, m)}]_vars

\* The owner made u2 a moderator (204); a request by u2 to change the
\* owner's role was refused with 403.
C16_Witness ==
    \E i, j \in TaskIds :
        /\ Done(i, "change_role") /\ Done(j, "change_role")
        /\ tasks[i].userId = "u1" /\ tasks[i].memberId = "u2"
        /\ tasks[i].status = 204 /\ RoleOf("c1", "u2") = "moderator"
        /\ tasks[j].userId = "u2" /\ tasks[j].memberId = "u1"
        /\ tasks[j].status = 403
        /\ RoleOf("c1", "u1") = "owner"

\* C32: the authorization of a changeRole request reads the roles and its
\* update writes without reading them again: whatever another request has
\* written to the same target since the check, the update of a target that
\* is still a member succeeds and stores its own role, so that the role
\* after two interleaved requests is that of the later update; the target
\* then has exactly one membership row and its role is not owner.
C32_LastWriteWins ==
    [][\A i \in DOMAIN tasks' :
          Acts(i, "change_role") /\ From(i) = "roleUpdate" =>
              LET c == tasks'[i].channelId
                  m == tasks'[i].memberId
              IN  /\ tasks[i].callerRole = "owner"
                  /\ tasks[i].targetRole \notin {NoRole, "owner"}
                  /\ RowsOf(c, m) # {} =>
                        /\ tasks'[i].status = 204
                        /\ {p \in participants' :
                               p.conversation_id = c /\ p.user_id = m}
                             = {Participant(c, m, tasks'[i].role)}
                        /\ tasks'[i].role # "owner"]_vars

\* Two requests of the owner for u2 both passed the checks while u2 was a
\* member; the request for moderator wrote first and the request for member
\* wrote last: u2 is a member.
C32_Witness ==
    \E i, j \in TaskIds :
        /\ Done(i, "change_role") /\ Done(j, "change_role")
        /\ tasks[i].memberId = "u2" /\ tasks[j].memberId = "u2"
        /\ tasks[i].status = 204 /\ tasks[j].status = 204
        /\ tasks[i].role = "moderator" /\ tasks[j].role = "member"
        /\ tasks[i].targetRole = "member" /\ tasks[j].targetRole = "member"
        /\ RowsOf("c1", "u2") = {Participant("c1", "u2", "member")}

(***************************************************************************)
(* Channel life cycle (SpecChannel)                                         *)
(***************************************************************************)
MaxChannelTasks == 3
ChannelActors   == {"u1", "u2"}
ChannelNames    == {<<"c">>, <<" ">>}

NextChannel ==
    \/ \E u \in ChannelActors, n \in ChannelNames :
          Len(tasks) < MaxChannelTasks /\ CreateChannel(u, n)
    \/ \E u \in ChannelActors :
          Len(tasks) < MaxChannelTasks /\ DeleteChannel(u, ChannelIds[1])
    \/ /\ Len(tasks) < MaxChannelTasks
       /\ ChatMessage("s1", ChannelIds[1], Hi, NULL, {})
    \/ \E i \in TaskIds : DbInsertChannel(i)
    \/ \E i \in TaskIds : DbInsertOwner(i)
    \/ \E i \in TaskIds : DbDeleteCallerRole(i)
    \/ \E i \in TaskIds : DbDeleteChannel(i)
    \/ \E i \in TaskIds : DbSaveMessage(i)
    \/ \E i \in TaskIds : ContinueSaved(i)

SpecChannel == InitEmpty /\ [][NextChannel]_vars

OwnersOf(channelId) ==
    {p \in participants : p.conversation_id = channelId /\ p.role = "owner"}

\* C13: in every reachable state a channel row exists if and only if an
\* owner membership row of that channel exists.
C13_ChannelIffOwner ==
    \A k \in DOMAIN ChannelIds :
        ChannelIds[k] \in DOMAIN conversations <=> OwnersOf(ChannelIds[k]) # {}

\* C17: deleteChannel succeeds (204) only for the channel owner, and when its
\* DELETE has run no membership of the channel and no message whose room is
\* the channel remains; by any other identity it ends with Forbidden (403)
\* and deletes nothing.
C17_DeleteCascades ==
    [][\A i \in DOMAIN tasks' :
          Acts(i, "delete_channel") =>
              LET c == tasks'[i].channelId
              IN  /\ RoleOf(c, tasks'[i].userId) # "owner" =>
                        /\ UNCHANGED <<chanVars, msgVars>>
                        /\ From(i) = "deleteCallerRole" =>
                              tasks'[i].pc = "done" /\ tasks'[i].status = 403
                  /\ tasks'[i].status = 204 =>
                        /\ RoleOf(c, tasks'[i].userId) = "owner"
                        /\ c \notin DOMAIN conversations'
                        /\ \A p \in participants' : p.conversation_id # c
                        /\ \A m \in DOMAIN messages' : messages'[m].room # c]_vars

(***************************************************************************)
(* Editing and deleting messages (SpecMessage)                              *)
(***************************************************************************)
Yo == <<"y", "o">>

\* u1 has sent message 1 and u2 has sent message 2 to general.
InitAuthored ==
    InitStore(DefaultUsers,
              [m \in 1..2 |->
                 MessageRow(DefaultUsers, m, "general",
                            IF m = 1 THEN "u1" ELSE "u2", Hi, FALSE)])

MaxMessageTasks == 3
MessageSockets  == {"s1", "s2"}
\* Messages 1 and 2 are stored, message 3 is not.
MessageIds      == {1, 2, 3}
EditBodies      == {Yo, <<" ", "y", "o">>, <<" ">>}

NextMessage ==
    \/ \E s \in MessageSockets, m \in MessageIds, b \in EditBodies :
          Len(tasks) < MaxMessageTasks /\ EditMessage(s, m, b)
    \/ \E s \in MessageSockets, m \in MessageIds :
          Len(tasks) < MaxMessageTasks /\ DeleteMessage(s, m)
    \/ \E i \in TaskIds : DbEditMessage(i)
    \/ \E i \in TaskIds : ContinueEdited(i)
    \/ \E i \in TaskIds : DbSoftDeleteMessage(i)
    \/ \E i \in TaskIds : ContinueDeleted(i)

SpecMessage == InitAuthored /\ [][NextMessage]_vars

\* The identity the handshake bound to the socket of task i.
Sender(i) == socketData[tasks'[i].sock].id

IsAuthor(i) ==
    /\ tasks'[i].messageId \in DOMAIN messages
    /\ messages[tasks'[i].messageId].user_id = Sender(i)

\* C18: a step of edit_message by the message's author sets the body to the
\* new body and edited_at to the time of the update and changes nothing else
\* of the message or of any other message; a step of edit_message by anyone
\* else, or for a message that is not stored, returns no row, raises no
\* error, emits nothing and leaves every message unchanged.
C18_EditAuthorOnly ==
    [][\A i \in DOMAIN tasks' :
          Acts(i, "edit_message") =>
              LET m == tasks'[i].messageId
              IN  /\ IsAuthor(i) /\ From(i) = "editMessage" =>
                        /\ messages' = [messages EXCEPT
                                          ![m].message = tasks'[i].message,
                                          ![m].edited_at = clock]
                        /\ messages'[m].edited_at # NULL
                        /\ tasks'[i].rows = {m}
                  /\ ~IsAuthor(i) =>
                        /\ UNCHANGED <<msgVars, emitted>>
                        /\ tasks'[i].rows = {}
                        /\ ~tasks'[i].err
                        /\ From(i) = "editMessage" => tasks'[i].pc = "done"
                  /\ From(i) # "editMessage" => UNCHANGED msgVars]_vars

\* u2 has asked to edit u1's message 1, which still reads "hi", and u1 has
\* edited it or another message of its own.
C18_Witness ==
    /\ \E i \in TaskIds :
          /\ tasks[i].kind = "edit_message" /\ tasks[i].pc = "done"
          /\ tasks[i].sock = "s2" /\ tasks[i].messageId = 1
          /\ tasks[i].message = Yo /\ tasks[i].rows = {}
          /\ messages[1].message = Hi
    /\ \E i \in TaskIds :
          /\ tasks[i].kind = "edit_message" /\ tasks[i].rows = {2}
          /\ tasks[i].sock = "s2" /\ messages[2].message = Yo
          /\ messages[2].edited_at # NULL

\* C19: a step of delete_message by the message's author sets deleted_at and
\* deleted_by and leaves the row in place with its id, room, body, author and
\* reply-to unchanged, and every other row unchanged; a step of
\* delete_message by anyone else changes no message, raises no error and
\* emits nothing.
C19_SoftDeleteFrame ==
    [][\A i \in DOMAIN tasks' :
          Acts(i, "delete_message") =>
              LET m == tasks'[i].messageId
              IN  /\ IsAuthor(i) /\ From(i) = "softDelete" =>
                        /\ messages' = [messages EXCEPT
                                          ![m].deleted_at = clock,
                                          ![m].deleted_by = Sender(i)]
                        /\ messages'[m].deleted_at # NULL
                        /\ messages'[m].id = m
                        /\ messages'[m].message = messages[m].message
                  /\ ~IsAuthor(i) =>
                        /\ UNCHANGED <<msgVars, emitted>>
                        /\ tasks'[i].rows = {}
                        /\ ~tasks'[i].err
                        /\ From(i) = "softDelete" => tasks'[i].pc = "done"
                  /\ From(i) # "softDelete" => UNCHANGED msgVars]_vars

\* u1 has deleted its message 1, whose body is still stored, and u1's
\* request to delete u2's message 2 has ended without touching it.
C19_Witness ==
    /\ messages[1].deleted_at # NULL /\ messages[1].deleted_by = "u1"
    /\ messages[1].message = Hi
    /\ \E i \in TaskIds :
          /\ tasks[i].kind = "delete_message" /\ tasks[i].pc = "done"
          /\ tasks[i].sock = "s1" /\ tasks[i].messageId = 2
    /\ messages[2].deleted_at = NULL

\* C36: the UPDATE of an edit_message that runs when the message is already
\* soft-deleted changes no message and returns no row (so that nothing is
\* published for it), and no step sets a deleted_at that is set back to
\* null.
C36_DeletedIsFinal ==
    [][/\ \A i \in DOMAIN tasks :
             /\ tasks[i].kind = "edit_message" /\ tasks[i].pc = "editMessage"
             /\ tasks'[i] # tasks[i]
             /\ tasks[i].messageId \in DOMAIN messages
             /\ messages[tasks[i].messageId].deleted_at # NULL
             => messages' = messages /\ tasks'[i].rows = {}
       /\ \A m \in DOMAIN messages :
             messages[m].deleted_at # NULL =>
                m \in DOMAIN messages' /\ messages'[m].deleted_at # NULL]_vars

(***************************************************************************)
(* Room history (SpecHistory)                                               *)
(***************************************************************************)
MaxHistoryTasks == 4
MaxHistoryMessages == 3
HistoryRooms   == {"general", "support"}
HistoryLimits  == {NULL, -1, 1, 2}

NextHistory ==
    \/ /\ Len(tasks) < MaxHistoryTasks
       /\ Cardinality({i \in TaskIds : tasks[i].kind = "chat_message"})
             < MaxHistoryMessages
       /\ ChatMessage("s1", "general", Hi, NULL, {})
    \/ \E rm \in HistoryRooms, l \in HistoryLimits :
          Len(tasks) < MaxHistoryTasks /\ GetMessages(rm, l)
    \/ \E i \in TaskIds : DbSaveMessage(i)
    \/ \E i \in TaskIds : ContinueSaved(i)
    \/ \E i \in TaskIds : DbGetMessages(i)
    \/ \E i \in TaskIds : ContinueGetMessages(i)

SpecHistory == InitEmpty /\ [][NextHistory]_vars

\* The k greatest of ids.
Greatest_k(ids, k) ==
    {m \in ids : Cardinality({n \in ids : n > m}) < k}

\* C20: the history of a room returned for a limit holds the min(limit, n)
\* messages of the room with the greatest ids, in strictly ascending id
\* order, whatever the creation timestamps of the stored messages are.
C20_HistoryByIdAscending ==
    [][\A i \in DOMAIN tasks' :
          Acts(i, "get_messages") /\ From(i) = "getMessages" /\ ~tasks'[i].err =>
              LET h   == tasks'[i].history
                  ids == RoomIds(messages, tasks'[i].room)
                  k   == Min(tasks'[i].limit, Cardinality(ids))
              IN  /\ Len(h) = k
                  /\ {h[j] : j \in 1..Len(h)} = Greatest_k(ids, k)
                  /\ \A j \in 1..(Len(h) - 1) : h[j] < h[j + 1]]_vars

(***************************************************************************)
(* Message ids (SpecIds)                                                    *)
(***************************************************************************)
MaxIdTasks == 3
IdRooms    == {"general", "support"}
\* Message 9 is never stored: a reply to it is refused by the foreign key.
IdReplies  == {NULL, 9}

NextIds ==
    \/ \E s \in {"s1", "s2"}, rm \in IdRooms, re \in IdReplies :
          Len(tasks) < MaxIdTasks /\ ChatMessage(s, rm, Hi, re, {})
    \/ Len(tasks) < MaxIdTasks /\ EditMessage("s2", 1, Yo)
    \/ Len(tasks) < MaxIdTasks /\ DeleteMessage("s2", 1)
    \/ \E i \in TaskIds : DbSaveMessage(i)
    \/ \E i \in TaskIds : ContinueSaved(i)
    \/ \E i \in TaskIds : DbEditMessage(i)
    \/ \E i \in TaskIds : ContinueEdited(i)
    \/ \E i \in TaskIds : DbSoftDeleteMessage(i)
    \/ \E i \in TaskIds : ContinueDeleted(i)

SpecIds == InitOneMessage /\ [][NextIds]_vars

\* C21: a stored message keeps its id and its room and is never removed; a
\* newly stored message gets an id greater than the id of every message
\* stored in its room and than every id handed out before, also when the
\* appends run concurrently with each other and with edits and deletes.
C21_IdsIncrease ==
    /\ [](\A m \in DOMAIN messages : messages[m].id = m)
    /\ [][/\ \A m \in DOMAIN messages :
                /\ m \in DOMAIN messages'
                /\ messages'[m].id = messages[m].id
                /\ messages'[m].room = messages[m].room
          /\ \A m \in DOMAIN messages' \ DOMAIN messages :
                /\ m > messageSeq
                /\ \A n \in RoomIds(messages, messages'[m].room) : n < m]_vars

\* Two appends to general were pending together and were stored in the
\* opposite order of their arrival, after a refused append had consumed an
\* id or while message 1 was edited or deleted.
C21_Witness ==
    \E i, j \in TaskIds :
        /\ i < j
        /\ tasks[i].kind = "chat_message" /\ tasks[j].kind = "chat_message"
        /\ tasks[i].room = "general" /\ tasks[j].room = "general"
        /\ tasks[i].saved # NULL /\ tasks[j].saved # NULL
        /\ tasks[j].saved < tasks[i].saved
        /\ \/ messages[1].edited_at # NULL
           \/ messages[1].deleted_at # NULL
           \/ messageSeq > Cardinality(DOMAIN messages)

(***************************************************************************)
(* Connections (SpecConnect)                                                *)
(***************************************************************************)
\* The server before any client has connected.
InitIdle ==
    /\ users = DefaultUsers
    /\ conversations = EmptyMap
    /\ participants = {}
    /\ messages = EmptyMap
    /\ messageSeq = 0
    /\ attachments = EmptyMap
    /\ attachmentSeq = 0
    /\ reactions = {}
    /\ reactionSeq = 0
    /\ reads = {}
    /\ readSeq = 0
    /\ clock = 1
    /\ socketData = [s \in Sockets |-> NoUser]
    /\ connState = [s \in Sockets |-> "idle"]
    /\ rooms = [s \in Sockets |-> {}]
    /\ tasks = <<>>
    /\ emitted = <<>>
    /\ dmArgs = <<>>
    /\ dmRoom = <<>>
    /\ roleArgs = <<>>
    /\ roleOk = FALSE

MaxConnectTasks == 5
ConnectSockets  == {"s1", "s2"}
ConnectTokens   == {NoToken, Token("u1", Alice, FALSE),
                    Token("u1", Alice, TRUE), Token("u2", Bob, TRUE)}
ConnectRooms    == {"general", "s1"}

NextConnect ==
    \/ \E s \in ConnectSockets, tok \in ConnectTokens :
          Len(tasks) < MaxConnectTasks /\ Connect(s, tok)
    \/ \E s \in ConnectSockets :
          Len(tasks) < MaxConnectTasks /\ Disconnect(s)
    \/ \E s \in ConnectSockets, rm \in ConnectRooms :
          Len(tasks) < MaxConnectTasks /\ JoinRoom(s, rm)
    \/ \E s \in ConnectSockets :
          Len(tasks) < MaxConnectTasks /\ Typing(s, "general", TRUE)
    \/ \E s \in ConnectSockets :
          Len(tasks) < MaxConnectTasks /\ ChatMessage(s, "general", Hi, NULL, {})
    \/ Len(tasks) < MaxConnectTasks /\ UpdateProfile("u1", Bob)
    \/ \E i \in TaskIds : DbSaveMessage(i)
    \/ \E i \in TaskIds : ContinueSaved(i)
    \/ \E i \in TaskIds : DbUpdateProfile(i)

SpecConnect == InitIdle /\ [][NextConnect]_vars

\* The handshakes that presented no token or one that fails verification.
RefusedHandshakes ==
    {i \in TaskIds : /\ tasks[i].kind = "connection"
                     /\ ~(tasks[i].token.present /\ tasks[i].token.valid)}

SignalsTo(sock) ==
    {n \in 1..Len(emitted) : sock \in emitted[n].recipients}

\* C22: a connection that presented no token, or a token that fails
\* verification, is closed, has received exactly one event, the error event,
\* has no identity bound and is in no room; no handler ever runs for it, so
\* no task other than its handshake names it.
C22_RefusedHandshake ==
    \A i \in RefusedHandshakes :
        LET s == tasks[i].sock
        IN  /\ connState[s] = "closed"
            /\ socketData[s] = NoUser
            /\ rooms[s] = {}
            /\ Cardinality(SignalsTo(s)) = 1
            /\ \A n \in SignalsTo(s) : /\ emitted[n].event = "error"
                                       /\ emitted[n].recipients = {s}
            /\ \A j \in TaskIds : tasks[j].sock = s => j = i

\* s1 was refused for a token that fails verification; s2, connected as u2,
\* has since joined general and sent a message that was broadcast there.
C22_Witness ==
    /\ \E i \in RefusedHandshakes :
          tasks[i].sock = "s1" /\ tasks[i].token.present
    /\ connState["s2"] = "open" /\ "general" \in rooms["s2"]
    /\ \E n \in 1..Len(emitted) :
          /\ emitted[n].event = "chat_message"
          /\ emitted[n].recipients = {"s2"}

\* The claims of the token socket sock was accepted with.
BoundAt(sock) ==
    LET i == CHOOSE k \in TaskIds :
                tasks[k].kind = "connection" /\ tasks[k].sock = sock
    IN  [id |-> tasks[i].token.sub, displayName |-> tasks[i].token.displayName]

Accepted(sock) == connState[sock] \in {"open", "closed"} /\ socketData[sock] # NoUser

\* C23: once the handshake has bound an identity to a connection no step
\* changes it, it is the claims of the accepted token, and every message
\* stored and every chat_message, user_joined and typing event published for
\* the connection carries it, whatever the users table says by then.
C23_IdentityBound ==
    /\ [](\A s \in Sockets : Accepted(s) =>
            /\ socketData[s] = BoundAt(s)
            /\ \A j \in TaskIds :
                  tasks[j].kind = "chat_message" /\ tasks[j].sock = s
                  /\ tasks[j].saved # NULL =>
                     /\ messages[tasks[j].saved].user_id = BoundAt(s).id
                     /\ messages[tasks[j].saved].username = BoundAt(s).displayName
                     /\ \A n \in 1..Len(emitted) :
                           emitted[n].event = "chat_message"
                           /\ emitted[n].messageId = tasks[j].saved =>
                              /\ emitted[n].userId = BoundAt(s).id
                              /\ emitted[n].user = BoundAt(s).displayName)
    /\ [][/\ \A s \in Sockets : Accepted(s) => socketData'[s] = socketData[s]
          /\ Len(emitted') > Len(emitted)
             /\ emitted'[Len(emitted')].event \in {"user_joined", "typing"} =>
                \E s \in Sockets :
                    /\ Accepted(s)
                    /\ Len(tasks') > Len(tasks)
                    /\ tasks'[Len(tasks')].sock = s
                    /\ emitted'[Len(emitted')].userId = socketData[s].id
                    /\ emitted'[Len(emitted')].user = socketData[s].displayName]_vars

\* s1 connected as Alice, u1 was then renamed Bob, and a message s1 sent
\* after that is stored and broadcast under the name Alice.
C23_Witness ==
    \E i, j \in TaskIds :
        /\ i < j
        /\ tasks[i].kind = "update_profile" /\ tasks[i].status = 200
        /\ users["u1"].display_name = Bob
        /\ tasks[j].kind = "chat_message" /\ tasks[j].sock = "s1"
        /\ tasks[j].pc = "done" /\ tasks[j].saved # NULL
        /\ messages[tasks[j].saved].username = Alice
        /\ \E n \in 1..Len(emitted) :
              emitted[n].event = "chat_message" /\ emitted[n].user = Alice

\* The task that arrives in this step, if one does.
Arrived(kind, sock) ==
    /\ Len(tasks') = Len(tasks) + 1
    /\ tasks'[Len(tasks')].kind = kind
    /\ tasks'[Len(tasks')].sock = sock

\* C24: the rooms of an open connection change only in a join_room step of
\* that connection, which adds the named room (nothing when it is already
\* there), and in its disconnect step, which empties them; a closed
\* connection is in no room and is a recipient of no event published from
\* then on.
C24_Subscriptions ==
    /\ [](\A s \in Sockets : connState[s] = "closed" => rooms[s] = {})
    /\ [][\A s \in Sockets :
            /\ connState[s] = "open" =>
                 /\ Arrived("join_room", s) =>
                       rooms'[s] = rooms[s] \cup {tasks'[Len(tasks')].room}
                 /\ Arrived("disconnect", s) =>
                       rooms'[s] = {} /\ connState'[s] = "closed"
                 /\ ~Arrived("join_room", s) /\ ~Arrived("disconnect", s) =>
                       rooms'[s] = rooms[s] /\ connState'[s] = "open"
            /\ connState[s] = "closed" =>
                 /\ connState'[s] = "closed"
                 /\ Len(emitted') > Len(emitted) =>
                       s \notin emitted'[Len(emitted')].recipients]_vars

\* s1 joined general twice, sent a message there and disconnected before the
\* message was broadcast: the broadcast to general reached nobody.
C24_Witness ==
    /\ connState["s1"] = "closed"
    /\ Cardinality({i \in TaskIds : /\ tasks[i].kind = "join_room"
                                    /\ tasks[i].sock = "s1"
                                    /\ tasks[i].room = "general"}) = 2
    /\ \E n \in 1..Len(emitted) :
          /\ emitted[n].event = "chat_message"
          /\ emitted[n].to = ToRoom("general")
          /\ emitted[n].recipients = {}

\* The open connections in room, in the state after the step.
SubscribersAfter(room) ==
    {x \in Sockets : connState'[x] = "open" /\ room \in rooms'[x]}

dbVars == <<users, chanVars, msgVars, attVars, reactVars, readVars>>

\* C28: a join_room or typing step of connection s publishes exactly one
\* event, user_joined or typing, whose recipients are the open connections
\* in the room other than s; a typing step changes no table and no
\* subscription.
C28_OthersOnly ==
    [][\A s \in Sockets :
          /\ Arrived("join_room", s) \/ Arrived("typing", s) =>
                LET e == emitted'[Len(emitted')]
                    r == tasks'[Len(tasks')].room
                IN  /\ Len(emitted') = Len(emitted) + 1
                    /\ e.event = IF Arrived("typing", s) THEN "typing"
                                 ELSE "user_joined"
                    /\ e.recipients = SubscribersAfter(r) \ {s}
          /\ Arrived("typing", s) => UNCHANGED <<dbVars, connVars>>]_vars

\* s1 and s2 are in general; s2's join was announced to s1 alone, and a
\* typing event of s1 then reached s2 alone.
C28_Witness ==
    /\ \A s \in {"s1", "s2"} : connState[s] = "open" /\ "general" \in rooms[s]
    /\ \E n \in 1..Len(emitted) :
          /\ emitted[n].event = "user_joined"
          /\ emitted[n].recipients = {"s1"}
    /\ Len(emitted) > 0
    /\ emitted[Len(emitted)].event = "typing"
    /\ emitted[Len(emitted)].recipients = {"s2"}

(***************************************************************************)
(* Publishing (SpecPublish)                                                 *)
(***************************************************************************)
\* u2 has sent message 1 to general; s2 (u2) has joined general, s3 (u3) has
\* joined general and support, and s1 (u1) has joined no room.
InitJoined ==
    /\ users = DefaultUsers
    /\ conversations = EmptyMap
    /\ participants = {}
    /\ messages = 1 :> MessageRow(DefaultUsers, 1, "general", "u2", Hi, FALSE)
    /\ messageSeq = 1
    /\ attachments = EmptyMap
    /\ attachmentSeq = 0
    /\ reactions = {}
    /\ reactionSeq = 0
    /\ reads = {}
    /\ readSeq = 0
    /\ clock = 3
    /\ socketData = HandshakeData(DefaultUsers)
    /\ connState = [s \in Sockets |-> "open"]
    /\ rooms = [s \in Sockets |->
                  CASE s = "s1" -> {"s1"}
                    [] s = "s2" -> {"s2", "general"}
                    [] OTHER    -> {"s3", "general", "support"}]
    /\ tasks = <<>>
    /\ emitted = <<>>
    /\ dmArgs = <<>>
    /\ dmRoom = <<>>
    /\ roleArgs = <<>>
    /\ roleOk = FALSE

MaxPublishTasks == 2
PublishSockets  == {"s1", "s2"}
PublishRooms    == {"general", "support"}
\* Message 1 is stored; message 9 never is.
PublishIds      == {1, 9}

NextPublish ==
    \/ \E s \in PublishSockets, rm \in PublishRooms, re \in {NULL, 9} :
          Len(tasks) < MaxPublishTasks /\ ChatMessage(s, rm, Hi, re, {})
    \/ \E s \in PublishSockets, m \in PublishIds, b \in {Yo, <<" ">>} :
          Len(tasks) < MaxPublishTasks /\ EditMessage(s, m, b)
    \/ \E s \in PublishSockets, m \in PublishIds :
          Len(tasks) < MaxPublishTasks /\ DeleteMessage(s, m)
    \/ \E s \in PublishSockets, rm \in PublishRooms, m \in PublishIds :
          Len(tasks) < MaxPublishTasks /\ MarkRead(s, rm, m)
    \/ \E s \in PublishSockets, rm \in PublishRooms, m \in PublishIds :
          Len(tasks) < MaxPublishTasks /\ AddReaction(s, m, Plus, rm)
    \/ \E s \in PublishSockets, rm \in PublishRooms, m \in PublishIds :
          Len(tasks) < MaxPublishTasks /\ RemoveReaction(s, m, Plus, rm)
    \/ \E s \in PublishSockets :
          Len(tasks) < MaxPublishTasks /\ Disconnect(s)
    \/ \E i \in TaskIds : DbSaveMessage(i)
    \/ \E i \in TaskIds : ContinueSaved(i)
    \/ \E i \in TaskIds : DbEditMessage(i)
    \/ \E i \in TaskIds : ContinueEdited(i)
    \/ \E i \in TaskIds : DbSoftDeleteMessage(i)
    \/ \E i \in TaskIds : ContinueDeleted(i)
    \/ \E i \in TaskIds : DbUpsertReadReceipt(i)
    \/ \E i \in TaskIds : ContinueUpserted(i)
    \/ \E i \in TaskIds : DbUnreadCounts(i)
    \/ \E i \in TaskIds : DbMentionUnreadCounts(i)
    \/ \E i \in TaskIds : ContinueCounted(i)
    \/ \E i \in TaskIds : DbAddReaction(i)
    \/ \E i \in TaskIds : DbRemoveReaction(i)
    \/ \E i \in TaskIds : ContinueReaction(i)

SpecPublish == InitJoined /\ [][NextPublish]_vars

ChangeEvents ==
    {"chat_message", "message_edited", "message_deleted",
     "read_receipt_updated", "reaction_updated"}

ChangeKinds ==
    {"chat_message", "edit_message", "delete_message", "mark_read",
     "add_reaction", "remove_reaction"}

\* Task i takes a step that publishes one event.
Published(i) ==
    /\ i \in DOMAIN tasks /\ tasks'[i] # tasks[i]
    /\ Len(emitted') = Len(emitted) + 1

LastEvent == emitted'[Len(emitted')]

\* C25: when a handler of an open connection publishes the change event of
\* its chat_message, edit_message, delete_message, mark_read or reaction,
\* that connection is among the recipients, whether or not it has joined the
\* room.
C25_SelfEcho ==
    [][\A i \in DOMAIN tasks :
          /\ Published(i)
          /\ LastEvent.event \in ChangeEvents
          /\ connState[tasks[i].sock] = "open"
          => tasks[i].sock \in LastEvent.recipients]_vars

\* The write the event e of task i reports is in the tables (for a reaction:
\* its statement has been acknowledged).
Written(i, e) ==
    CASE e.event = "chat_message" ->
            /\ e.messageId \in DOMAIN messages
            /\ messages[e.messageId].room = e.room
            /\ messages[e.messageId].message = e.message
      [] e.event = "message_edited" ->
            /\ e.messageId \in DOMAIN messages
            /\ messages[e.messageId].edited_at # NULL
            /\ tasks[i].rows = {e.messageId}
      [] e.event = "message_deleted" ->
            /\ e.messageId \in DOMAIN messages
            /\ messages[e.messageId].deleted_at # NULL
            /\ tasks[i].rows = {e.messageId}
      [] e.event = "read_receipt_updated" ->
            \E r \in reads : /\ r.room = e.room /\ r.user_id = e.userId
                             /\ r.last_read_message_id >= e.lastReadMessageId
      [] OTHER ->
            tasks[i].pc \in {"added", "removed"}

Subscribers(room) ==
    {s \in Sockets : connState[s] = "open" /\ room \in rooms[s]}

\* C27: the upsert of a mark_read stores the greater of the stored and the
\* requested watermark; the handler then publishes read_receipt_updated
\* carrying that watermark to the connections in the payload's room, and
\* later unread_counts to the calling connection alone; it publishes nothing
\* else.
C27_ReceiptAndCounts ==
    [][\A i \in DOMAIN tasks :
          tasks[i].kind = "mark_read" /\ tasks'[i] # tasks[i] =>
              LET t == tasks[i]
                  u == socketData[t.sock].id
              IN  /\ t.pc = "upsert" /\ ~tasks'[i].err =>
                        /\ \E r \in reads' :
                              /\ r.room = t.room /\ r.user_id = u
                              /\ r.last_read_message_id = tasks'[i].lastRead
                        /\ tasks'[i].lastRead >= t.messageId
                        /\ \A r \in reads :
                              r.room = t.room /\ r.user_id = u =>
                                 tasks'[i].lastRead >= r.last_read_message_id
                        /\ emitted' = emitted
                  /\ t.pc = "upserted" =>
                        /\ Len(emitted') = Len(emitted) + 1
                        /\ LastEvent.event = "read_receipt_updated"
                        /\ LastEvent.room = t.room
                        /\ LastEvent.userId = u
                        /\ LastEvent.lastReadMessageId = t.lastRead
                        /\ LastEvent.recipients = Subscribers(t.room)
                  /\ t.pc = "counts" =>
                        \/ emitted' = emitted
                        \/ /\ Len(emitted') = Len(emitted) + 1
                           /\ LastEvent.event = "unread_counts"
                           /\ LastEvent.recipients =
                                 {s \in {t.sock} : connState[s] = "open"}]_vars

\* s2 marked message 1 of general read: the receipt reached s2 and s3, the
\* counts s2 alone.
C27_Witness ==
    /\ \E i \in TaskIds :
          /\ tasks[i].kind = "mark_read" /\ tasks[i].sock = "s2"
          /\ tasks[i].room = "general" /\ tasks[i].pc = "done"
          /\ tasks[i].lastRead = 1
    /\ \E n \in 1..Len(emitted) :
          /\ emitted[n].event = "read_receipt_updated"
          /\ emitted[n].recipients = {"s2", "s3"}
    /\ \E n \in 1..Len(emitted) :
          /\ emitted[n].event = "unread_counts"
          /\ emitted[n].recipients = {"s2"}

\* C37: in every state every message has deleted_at and deleted_by both
\* unset or both set, and a set deleted_by is the author of the message.
C37_DeletedByAuthor ==
    \A m \in DOMAIN messages :
        /\ messages[m].deleted_at = NULL <=> messages[m].deleted_by = ""
        /\ messages[m].deleted_at # NULL =>
              messages[m].deleted_by = messages[m].user_id

\* u2 has deleted its message 1, and message 2, stored since, is not
\* deleted.
C37_Witness ==
    /\ messages[1].deleted_at # NULL /\ messages[1].deleted_by = "u2"
    /\ 2 \in DOMAIN messages
    /\ messages[2].deleted_at = NULL /\ messages[2].deleted_by = ""
    /\ \E i \in TaskIds : tasks[i].kind = "delete_message" /\ tasks[i].pc = "done"

\* C29: an edit_message or delete_message handler publishes only in the step
\* after its UPDATE returned the row of a message its sender wrote, and then
\* one message_edited (message_deleted) event to the room stored on that
\* message; a handler of another identity, for a message that is not stored
\* or with a body that trims to nothing publishes nothing.
C29_PublishOnSuccess ==
    [][\A i \in DOMAIN tasks' :
          Acts(i, "edit_message") \/ Acts(i, "delete_message") =>
              LET m == tasks'[i].messageId
                  edit == tasks'[i].kind = "edit_message"
              IN  /\ emitted' # emitted =>
                        /\ Len(emitted') = Len(emitted) + 1
                        /\ From(i) = IF edit THEN "edited" ELSE "deleted"
                        /\ LastEvent.event = IF edit THEN "message_edited"
                                             ELSE "message_deleted"
                        /\ LastEvent.messageId = m
                        /\ tasks'[i].rows = {m}
                        /\ IsAuthor(i)
                        /\ IF edit THEN messages[m].edited_at # NULL
                           ELSE messages[m].deleted_at # NULL
                        /\ LastEvent.to = ToRoom(messages[m].room)
                        /\ LastEvent.recipients = Subscribers(messages[m].room)
                  /\ ~IsAuthor(i) => emitted' = emitted
                  /\ edit /\ tasks'[i].message = <<>> =>
                        emitted' = emitted /\ tasks'[i].pc = "done"]_vars

\* s2 edited its message 1 and the edit was published to general, while
\* s1's request to delete that message published nothing.
C29_Witness ==
    /\ \E i \in TaskIds :
          /\ tasks[i].kind = "edit_message" /\ tasks[i].sock = "s2"
          /\ tasks[i].pc = "done" /\ tasks[i].rows = {1}
    /\ \E j \in TaskIds :
          /\ tasks[j].kind = "delete_message" /\ tasks[j].sock = "s1"
          /\ tasks[j].messageId = 1 /\ tasks[j].pc = "done"
    /\ Len(emitted) = 1
    /\ emitted[1].event = "message_edited"
    /\ emitted[1].recipients = {"s2", "s3"}

\* C30: a reaction_updated event is delivered to the connections in the room
\* of the reacted message, whatever room the payload names.
C30_ReactionToMessageRoom ==
    [][\A i \in DOMAIN tasks :
          /\ Published(i)
          /\ LastEvent.event = "reaction_updated"
          /\ tasks[i].messageId \in DOMAIN messages
          => LastEvent.recipients = Subscribers(messages[tasks[i].messageId].room)]_vars

\* C40: when every handler has returned, a client that is subscribed to the
\* room of a message, and started with no reaction on it as the ledger did,
\* holds (user, emoji) in its reaction list for that message exactly when
\* the ledger holds the triple, provided every reaction request for the
\* message named that room.
C40_ClientMatchesLedger ==
    (\A i \in TaskIds : tasks[i].pc = "done") =>
        \A m \in DOMAIN messages, s \in Sockets :
            /\ s \in Subscribers(messages[m].room)
            /\ \A i \in TaskIds :
                  tasks[i].kind \in {"add_reaction", "remove_reaction"}
                  /\ tasks[i].messageId = m => tasks[i].room = messages[m].room
            => LET list == ClientReactions(s, m, <<>>, Len(emitted))
               IN  \A u \in UserIds :
                      (\E k \in 1..Len(list) :
                          list[k].userId = u /\ list[k].emoji = Plus)
                      <=> RowsFor(reactions, m, u, Plus) # {}

\* The next step of handler i: its statement, or the code after it.
StepOf(i) ==
    \/ DbSaveMessage(i) \/ ContinueSaved(i)
    \/ DbEditMessage(i) \/ ContinueEdited(i)
    \/ DbSoftDeleteMessage(i) \/ ContinueDeleted(i)
    \/ DbUpsertReadReceipt(i) \/ ContinueUpserted(i)
    \/ DbUnreadCounts(i) \/ DbMentionUnreadCounts(i) \/ ContinueCounted(i)
    \/ DbAddReaction(i) \/ DbRemoveReaction(i) \/ ContinueReaction(i)

\* Handler i belongs to a connection that has closed.
Orphan(i) == connState[tasks[i].sock] = "closed"

\* The statement of orphan i, run in this step, had the effect it has for an
\* open connection.
OrphanWrote(i) ==
    LET t == tasks[i]
        u == socketData[t.sock].id
        m == t.messageId
    IN  /\ t.pc = "saveMessage"
           /\ (t.replyToMessageId = NULL \/ t.replyToMessageId \in DOMAIN messages)
           => /\ ~tasks'[i].err
              /\ tasks'[i].saved \in DOMAIN messages' \ DOMAIN messages
              /\ messages'[tasks'[i].saved].room = t.room
              /\ messages'[tasks'[i].saved].user_id = u
        /\ t.pc = "editMessage" /\ m \in DOMAIN messages /\ messages[m].user_id = u
           => messages'[m].message = t.message /\ tasks'[i].rows = {m}
        /\ t.pc = "softDelete" /\ m \in DOMAIN messages /\ messages[m].user_id = u
           => messages'[m].deleted_at # NULL /\ tasks'[i].rows = {m}
        /\ t.pc = "upsert" /\ m \in DOMAIN messages
           => \E r \in reads' : /\ r.room = t.room /\ r.user_id = u
                                /\ r.last_read_message_id >= m
        /\ t.pc = "addReaction" /\ m \in DOMAIN messages
           => RowsFor(reactions', m, u, t.emoji) # {}
        /\ t.pc = "removeReaction"
           => RowsFor(reactions', m, u, t.emoji) = {}

\* C31: a connection's close changes no handler and no table; a handler
\* whose connection has closed while it waits can still take its next step,
\* its statement then has its usual effect on the tables and no step removes
\* a stored message; the change event it publishes reaches the open
\* connections of the room, and no event published after the close has the
\* closed connection among its recipients.
C31_DisconnectInFlight ==
    /\ [](\A i \in DOMAIN tasks :
             Orphan(i) /\ tasks[i].pc # "done" => ENABLED StepOf(i))
    /\ [][/\ Len(tasks') > Len(tasks) /\ tasks'[Len(tasks')].kind = "disconnect"
             => /\ SubSeq(tasks', 1, Len(tasks)) = tasks
                /\ dbVars' = dbVars /\ emitted' = emitted
          /\ DOMAIN messages \subseteq DOMAIN messages'
          /\ \A i \in DOMAIN tasks :
                Orphan(i) /\ tasks'[i] # tasks[i] =>
                   /\ OrphanWrote(i)
                   /\ Published(i) /\ LastEvent.event \in ChangeEvents =>
                         LastEvent.recipients = Subscribers(LastEvent.to[2])
          /\ Len(emitted') > Len(emitted) =>
                \A s \in LastEvent.recipients : connState[s] = "open"]_vars

\* s2 sent a message to general and disconnected before the INSERT was
\* acknowledged: message 2 is stored and its event reached s3 alone.
C31_Witness ==
    /\ Len(tasks) = 2
    /\ tasks[1].kind = "chat_message" /\ tasks[1].sock = "s2"
    /\ tasks[1].room = "general" /\ tasks[1].pc = "done"
    /\ tasks[2].kind = "disconnect" /\ tasks[2].sock = "s2"
    /\ tasks[1].saved = 2 /\ 2 \in DOMAIN messages
    /\ Len(emitted) = 1
    /\ emitted[1].event = "chat_message"
    /\ emitted[1].recipients = {"s3"}

(***************************************************************************)
(* Ownership (SpecOwner)                                                    *)
(***************************************************************************)
MaxOwnerTasks == 3
OwnerActors   == {"u1", "u2"}

NextOwner ==
    \/ \E u \in OwnerActors :
          Len(tasks) < MaxOwnerTasks /\ CreateChannel(u, <<"c">>)
    \/ \E u \in OwnerActors, m \in OwnerActors :
          Len(tasks) < MaxOwnerTasks
          /\ Invite(u, ChannelIds[1], m, users[m].display_name)
    \/ \E u \in OwnerActors, m \in OwnerActors :
          Len(tasks) < MaxOwnerTasks /\ RemoveMember(u, ChannelIds[1], m)
    \/ \E u \in OwnerActors, m \in OwnerActors, r \in RoleChoices :
          Len(tasks) < MaxOwnerTasks /\ ChangeRole(u, ChannelIds[1], m, r)
    \/ \E u \in OwnerActors :
          Len(tasks) < MaxOwnerTasks /\ LeaveChannel(u, ChannelIds[1])
    \/ \E i \in TaskIds : DbInsertChannel(i)
    \/ \E i \in TaskIds : DbInsertOwner(i)
    \/ \E i \in TaskIds : DbInviteCallerRole(i)
    \/ \E i \in TaskIds : DbInviteTargetUser(i)
    \/ \E i \in TaskIds : DbInviteAdd(i)
    \/ \E i \in TaskIds : DbRemoveCallerRole(i)
    \/ \E i \in TaskIds : DbRemoveTargetRole(i)
    \/ \E i \in TaskIds : DbRemoveUser(i)
    \/ \E i \in TaskIds : DbRoleCallerRole(i)
    \/ \E i \in TaskIds : DbRoleTargetRole(i)
    \/ \E i \in TaskIds : DbUpdateRole(i)
    \/ \E i \in TaskIds : DbLeaveRole(i)
    \/ \E i \in TaskIds : DbLeaveRemove(i)

SpecOwner == InitEmpty /\ [][NextOwner]_vars

\* The createChannel request that made channel c has been answered.
Created(c) ==
    \E i \in TaskIds : /\ tasks[i].kind = "create_channel"
                       /\ tasks[i].channelId = c /\ tasks[i].pc = "done"

\* C34: whatever createChannel, invite, removeMember, changeRole and leave
\* requests have run, a channel never has an owner membership other than its
\* creator's, and once its createChannel request has been answered it has
\* that one: no request adds a second owner, removes the owner's membership
\* or changes its role.
C34_OneOwnerTheCreator ==
    \A c \in DOMAIN conversations :
        LET creator == Participant(c, conversations[c].created_by, "owner")
        IN  /\ OwnersOf(c) \subseteq {creator}
            /\ Created(c) => OwnersOf(c) = {creator}
            /\ Created(c) => RowsOf(c, conversations[c].created_by) = {creator}

\* u1 created c1 and invited u2; its request to make u2 an owner was refused
\* (400): u1 is the one owner.
C34_Witness ==
    /\ Len(tasks) = 3
    /\ Done(1, "create_channel") /\ tasks[1].userId = "u1" /\ tasks[1].status = 201
    /\ Done(2, "invite") /\ tasks[2].status = 204
    /\ Done(3, "change_role") /\ tasks[3].userId = "u1"
    /\ tasks[3].memberId = "u2" /\ tasks[3].role = "owner" /\ tasks[3].status = 400
    /\ participants = {Participant("c1", "u1", "owner"),
                       Participant("c1", "u2", "member")}

(***************************************************************************)
(* Private channels (SpecPrivate)                                           *)
(***************************************************************************)
\* From InitMember: channel c1 (is_public false) has owner u1 and member u2;
\* u3 has no membership.  The client uses the channel id as the room name.
MaxPrivateTasks == 3
PrivateSockets  == {"s2", "s3"}

NextPrivate ==
    \/ \E s \in PrivateSockets :
          Len(tasks) < MaxPrivateTasks /\ JoinRoom(s, "c1")
    \/ \E s \in PrivateSockets :
          Len(tasks) < MaxPrivateTasks /\ ChatMessage(s, "c1", Hi, NULL, {})
    \/ \E s \in PrivateSockets :
          Len(tasks) < MaxPrivateTasks /\ MarkRead(s, "c1", 1)
    \/ \E i \in TaskIds : DbSaveMessage(i)
    \/ \E i \in TaskIds : ContinueSaved(i)
    \/ \E i \in TaskIds : DbUpsertReadReceipt(i)
    \/ \E i \in TaskIds : ContinueUpserted(i)
    \/ \E i \in TaskIds : DbUnreadCounts(i)
    \/ \E i \in TaskIds : DbMentionUnreadCounts(i)
    \/ \E i \in TaskIds : ContinueCounted(i)

SpecPrivate == InitMember /\ [][NextPrivate]_vars

\* C35: a change event published to the room of a channel reaches only
\* connections whose identity has a membership in that channel, and the
\* INSERT of a chat_message that names a channel as room stores nothing when
\* the sender has no membership in it.
C35_MembersOnly ==
    [][/\ /\ Len(emitted') > Len(emitted)
          /\ LastEvent.event \in ChangeEvents
          /\ LastEvent.to[2] \in DOMAIN conversations
          => \A s \in LastEvent.recipients :
                RoleOf(LastEvent.to[2], socketData[s].id) # NoRole
       /\ \A i \in DOMAIN tasks :
             /\ tasks[i].pc = "saveMessage" /\ tasks'[i] # tasks[i]
             /\ tasks[i].room \in DOMAIN conversations
             /\ RoleOf(tasks[i].room, socketData[tasks[i].sock].id) = NoRole
             => messages' = messages]_vars

(***************************************************************************)
(* Global roles (SpecRole)                                                  *)
(***************************************************************************)
\* The role texts: the five names, names in other cases, names of no role.
RoleTexts ==
    {Guest, Member, Moderator, Admin, Superadmin,
     <<"G", "u", "e", "s", "t">>, <<"M", "E", "M", "B", "E", "R">>,
     <<"M", "o", "d", "e", "r", "a", "t", "o", "r">>,
     <<"A", "d", "m", "i", "n">>, <<"A", "D", "M", "I", "N">>,
     <<"S", "u", "p", "e", "r", "A", "d", "m", "i", "n">>,
     <<"o", "w", "n", "e", "r">>, <<"r", "o", "o", "t">>, <<>>,
     <<"a", "d", "m", "i", "n", " ">>}
    \cup ObjectPrototypeKeys

RoleInputs == {JsNull, Undefined} \cup {Str(t) : t \in RoleTexts}

NextRole ==
    \E role \in RoleInputs, required \in DOMAIN GLOBAL_ROLE_RANK :
        CallHasGlobalRoleAtLeast(role, required)

SpecRole == InitEmpty /\ [][NextRole]_vars

\* The rank the order guest < member < moderator < admin < superadmin gives
\* a role: a name of the five in any case has its place, null, a missing
\* role and any other text have the place of member.
Rank(role) ==
    IF role.type = "string" /\ Lower(role.text) \in DOMAIN GLOBAL_ROLE_RANK
    THEN GLOBAL_ROLE_RANK[Lower(role.text)]
    ELSE GLOBAL_ROLE_RANK[Member]

\* C33: hasGlobalRoleAtLeast(role, required), required one of the five
\* roles, is true exactly when the rank of role is at least the rank of
\* required, where null, a missing role and a text that names none of the
\* five roles rank as member and the case of letters is ignored.
C33_RoleAtLeast ==
    roleArgs # <<>> =>
        roleOk = (Rank(roleArgs[1]) >= GLOBAL_ROLE_RANK[roleArgs[2]])

(***************************************************************************)
(* Direct-room key (SpecDm)                                                 *)
(***************************************************************************)
MaxIdLen == 2
DmChars  == {"0", "1", "a"}

\* The ids: the texts of 1..MaxIdLen characters.
DmIds == UNION {[1..n -> DmChars] : n \in 1..MaxIdLen}

NextDm == \E a, b \in DmIds : CallGetDmRoomId(a, b)

SpecDm == InitEmpty /\ [][NextDm]_vars

\* a <= b in the order of strings by code units.
LexLeq(a, b) ==
    \/ Len(a) <= Len(b) /\ \A n \in 1..Len(a) : a[n] = b[n]
    \/ \E n \in 1..Len(a) :
          /\ n <= Len(b)
          /\ \A k \in 1..(n - 1) : a[k] = b[k]
          /\ CodeUnit(a[n]) < CodeUnit(b[n])

\* C10: the key computed for (A,B) is the key of (B,A), it is dm:<lo>:<hi>
\* with lo the lesser and hi the greater of the two ids, and computing it
\* changes nothing but the caller's result.
C10_DmKeySymmetric ==
    /\ [](dmArgs # <<>> =>
            LET a == dmArgs[1]
                b == dmArgs[2]
                lo == IF LexLeq(a, b) THEN a ELSE b
                hi == IF LexLeq(a, b) THEN b ELSE a
            IN  /\ dmRoom = getDmRoomId(b, a)
                /\ dmRoom = <<"d", "m", ":">> \o lo \o <<":">> \o hi)
    /\ [][dmRoom' # dmRoom \/ dmArgs' # dmArgs =>
            UNCHANGED <<users, chanVars, msgVars, attVars, reactVars, readVars, clock,
                        connVars, tasks, emitted>>]_vars

\* The key of two different ids given greater first has been computed.
C10_Witness ==
    /\ dmArgs # <<>>
    /\ dmArgs[1] # dmArgs[2]
    /\ ~LexLeq(dmArgs[1], dmArgs[2])
    /\ Len(dmArgs[1]) < Len(dmArgs[2])
    /\ dmRoom = <<"d", "m", ":">> \o dmArgs[2] \o <<":">> \o dmArgs[1]

====
